---- MODULE Spec2Model ----
(***************************************************************************)
(* Activity check of nikegor7/activity-proof: the result cache, the        *)
(* transaction existence prober, the chunked range scanner (three copies   *)
(* of it: activityCheck/iopn.ts, activityCheck/pharos.ts and the           *)
(* monolithic activityCheck.ts) and the month orchestrator.                *)
(*                                                                         *)
(* Block numbers and times are scaled down: one model block stands for a   *)
(* run of real blocks, one model tick for a run of milliseconds.  The      *)
(* chunk sizes and TTLs below are the source's constants in those units;   *)
(* the concurrency limits (2 and 5) are the source's own numbers.  The    *)
(* proxy route (app/api/explorer/route.ts) is modelled with its limiter,   *)
(* scaled the same way (3 requests per window of 2 ticks).                 *)
(***************************************************************************)
EXTENDS Integers, Sequences, FiniteSets, TLC

\* ------------------------------------------------------------------ bounds
MaxTime == 3          \* the clock runs 0..MaxTime
MaxBlock == 16        \* SpecScan draws endBlock from 0..MaxBlock
MaxStart == 2         \* SpecScan draws startBlock from 0..MaxStart
MaxCount == 5         \* SpecProxy: a client stops asking once its count is MaxCount

\* ------------------------------------------------- constants of the source
BLOCK_CHUNK_SIZE == 2                 \* activityCheck.ts: 50000
IOPN_BLOCK_CHUNK_SIZE == 4            \* activityCheck.ts: 500000
MAX_CONCURRENT_REQUESTS == 5
IOPN_MAX_CONCURRENT_REQUESTS == 2
iopn_CHUNK_SIZE == 4                  \* activityCheck/iopn.ts: 500000
iopn_MAX_CONCURRENT == 2
pharos_CHUNK_SIZE == 3                \* activityCheck/pharos.ts: 100000
pharos_MAX_CONCURRENT == 5
CACHE_TTL == 3                        \* 3600000 ms
LATEST_BLOCK_TTL == 2                 \* 300000 ms
RATE_LIMIT_MAX == 3                   \* route.ts: 30
RATE_LIMIT_WINDOW_MS == 2             \* route.ts: 60_000

PROXY_CHAINS == {"iopn-testnet"}
TIMESTAMP_BASED_CHAINS == {}

Impls == {"modular", "legacy"}        \* activityCheck/index.ts, activityCheck.ts
ChainIds == {"pharos-atlantic", "iopn-testnet", "ethereum-sepolia"}
Months == {"September", "October", "January", "February"}
Addresses == {"0xAb"}
ClientIps == {"203.0.113.7", "unknown"}   \* x-forwarded-for, or 'unknown' without it

\* ---------------------------------------------------------------- registry
\* contracts.ts, scaled: contiguous months, the gap before pharos February,
\* the open-ended last iopn month; deployed = contractAddress is not '0x'.
MonthConfig(n, s, e, d) == [name |-> n, startBlock |-> s, endBlock |-> e, deployed |-> d]

PHAROS_ATLANTIC_MONTHS ==
    << MonthConfig("October", 1, 6, TRUE),
       MonthConfig("January", 7, 10, TRUE),
       MonthConfig("February", 12, 15, FALSE) >>

IOPN_TESTNET_MONTHS ==
    << MonthConfig("September", 1, 10, TRUE),
       MonthConfig("February", 11, 30, TRUE) >>

\* contracts.ts, the block numbers as written (October 2025 .. February 2026
\* for pharos-atlantic, September 2025 .. February 2026 for iopn-testnet)
PHAROS_ATLANTIC_BLOCKS ==
    << [startBlock |-> 74250, endBlock |-> 2286948],
       [startBlock |-> 2286949, endBlock |-> 5147719],
       [startBlock |-> 5147720, endBlock |-> 8291372],
       [startBlock |-> 8291373, endBlock |-> 12326699],
       [startBlock |-> 12342700, endBlock |-> 15982250] >>

IOPN_TESTNET_BLOCKS ==
    << [startBlock |-> 1, endBlock |-> 1840000],
       [startBlock |-> 1840001, endBlock |-> 3876000],
       [startBlock |-> 3876001, endBlock |-> 5842000],
       [startBlock |-> 5842001, endBlock |-> 7884500],
       [startBlock |-> 7884501, endBlock |-> 9916800],
       [startBlock |-> 9916801, endBlock |-> 99999999] >>

VARIABLES
    now,                  \* Date.now()
    hasWindow,            \* typeof window !== 'undefined'
    localStorage,         \* key -> stored string
    CHAIN_MONTH_CONFIGS,  \* contracts.ts registry: chain -> sequence of MonthConfig
    cachedLatestBlock,    \* chain -> module-level cachedLatestBlock of its checker
    task,                 \* the call frame of each caller
    net,                  \* HTTP requests in flight
    probeCall,            \* one call of the prober on its own (SpecProbe)
    storageFault,         \* what the browser's storage refuses: "none", "quota", "denied"
    rateLimit,            \* the proxy's Map: ip -> { count, resetAt }
    proxyLog,             \* what the proxy did with the requests it got
    nft,                  \* the storage of one deployed ActivityNFT contract
    receipt,              \* the last transaction sent to it: function, sender, outcome
    deploy                \* one run of deployMonth of scripts/deploy-iopn.ts

vars == << now, hasWindow, localStorage, CHAIN_MONTH_CONFIGS, cachedLatestBlock,
           task, net, probeCall, storageFault, rateLimit, proxyLog, nft, receipt, deploy >>

\* the state of the proxy route
proxyVars == << rateLimit, proxyLog >>

\* the state of the minting contract and of the script that deploys it
chainVars == << nft, receipt, deploy >>

\* the state of the orchestrator and its scanners
scanVars == << now, hasWindow, localStorage, CHAIN_MONTH_CONFIGS, cachedLatestBlock,
               task, net, storageFault >>

Tasks == {1, 2}       \* the call frames
Callers == {1}        \* the one caller of the specifications that study a single call

\* ------------------------------------------------------------------- cache
toLowerCase(address) ==
    CASE address = "0xAb" -> "0xab"
      [] address = "0xAB" -> "0xab"
      [] address = "0xCd" -> "0xcd"
      [] OTHER -> address

\* faulty variant: the address goes into the key as it was passed
getCacheKey_NoLowerCase(address, chainSlug, month) ==
    << "activity", chainSlug, address, month >>

\* `activity_${chainSlug}_${address.toLowerCase()}_${month}`
getCacheKey(address, chainSlug, month) ==
    << "activity", chainSlug, toLowerCase(address), month >>

JSON_stringify(obj) == [text |-> "json", obj |-> obj]

\* A stored string is what JSON_stringify wrote (text "json"), a string that
\* is not JSON (text "corrupt": JSON.parse throws a SyntaxError), or JSON of
\* another shape (text "foreign": the destructuring yields undefined fields).
JSON_parse(str) ==
    CASE str.text = "json" -> [threw |-> FALSE, isEntry |-> TRUE, obj |-> str.obj]
      [] str.text = "foreign" -> [threw |-> FALSE, isEntry |-> FALSE, obj |-> str.obj]
      [] OTHER -> [threw |-> TRUE, isEntry |-> FALSE, obj |-> str.obj]

NoResult == [hit |-> FALSE, value |-> FALSE, threw |-> FALSE]   \* getCachedResult's null
Thrown == [hit |-> FALSE, value |-> FALSE, threw |-> TRUE]      \* an exception leaves the function

\* localStorage.getItem / setItem / removeItem throw: the browser denies the
\* storage (SecurityError) or, for setItem, the quota is used up
getItemThrows == storageFault = "denied"
setItemThrows == storageFault \in {"denied", "quota"}

\* faulty variant: the age test inverted (Date.now() - timestamp > 3600000)
getCachedResult_Inverted(address, chainSlug, month) ==
    IF ~hasWindow THEN NoResult
    ELSE IF getItemThrows THEN Thrown
    ELSE LET key == getCacheKey(address, chainSlug, month) IN
         IF key \notin DOMAIN localStorage THEN NoResult
         ELSE LET parsed == JSON_parse(localStorage[key]) IN
              IF parsed.threw THEN Thrown
              ELSE IF parsed.isEntry /\ now - parsed.obj.timestamp > CACHE_TTL
              THEN [hit |-> TRUE, value |-> parsed.obj.hasActivity, threw |-> FALSE]
              ELSE NoResult

\* faulty variant: an entry exactly 1 hour old still counts (<= for <)
getCachedResult_Lte(address, chainSlug, month) ==
    IF ~hasWindow THEN NoResult
    ELSE IF getItemThrows THEN Thrown
    ELSE LET key == getCacheKey(address, chainSlug, month) IN
         IF key \notin DOMAIN localStorage THEN NoResult
         ELSE LET parsed == JSON_parse(localStorage[key]) IN
              IF parsed.threw THEN Thrown
              ELSE IF parsed.isEntry /\ now - parsed.obj.timestamp <= CACHE_TTL
              THEN [hit |-> TRUE, value |-> parsed.obj.hasActivity, threw |-> FALSE]
              ELSE NoResult

getCachedResult(address, chainSlug, month) ==
    IF ~hasWindow THEN NoResult
    ELSE IF getItemThrows THEN Thrown
    ELSE LET key == getCacheKey(address, chainSlug, month) IN
         IF key \notin DOMAIN localStorage THEN NoResult
         ELSE LET parsed == JSON_parse(localStorage[key]) IN
              IF parsed.threw THEN Thrown
              ELSE IF parsed.isEntry /\ now - parsed.obj.timestamp < CACHE_TTL
              THEN [hit |-> TRUE, value |-> parsed.obj.hasActivity, threw |-> FALSE]
              ELSE NoResult

setItem(store, key, value) ==
    [k \in DOMAIN store \cup {key} |-> IF k = key THEN value ELSE store[k]]

\* setCachedResult: the storage it leaves, or the exception of setItem
setCachedResult(address, chainSlug, month, hasActivity) ==
    IF ~hasWindow THEN [threw |-> FALSE, store |-> localStorage]
    ELSE IF setItemThrows THEN [threw |-> TRUE, store |-> localStorage]
    ELSE [threw |-> FALSE,
          store |-> setItem(localStorage, getCacheKey(address, chainSlug, month),
                            JSON_stringify([hasActivity |-> hasActivity,
                                            timestamp |-> now]))]

removeItem(store, key) == [k \in DOMAIN store \ {key} |-> store[k]]

\* A key is kept as the tuple of its '_'-separated fields (no chain slug,
\* address or month name holds a '_'): key.startsWith('activity_') is true
\* of the tuples whose first field is "activity" and that have a second one.
startsWith_activity_(key) == Len(key) >= 2 /\ key[1] = "activity"

\* useMint.ts: STORAGE_KEY, the pending-mint record of the same origin
STORAGE_KEY == << "activity-proof-pending-mints" >>

getMonthConfigsForChain(chainSlug) ==
    IF chainSlug \in DOMAIN CHAIN_MONTH_CONFIGS THEN CHAIN_MONTH_CONFIGS[chainSlug] ELSE << >>

RECURSIVE removeEach(_, _)
removeEach(store, keys) ==
    IF keys = << >> THEN store
    ELSE removeEach(removeItem(store, Head(keys)), Tail(keys))

\* faulty variant: the prefix test without its underscore (startsWith('activity'))
clearActivityCache_LoosePrefix(address, chainSlug) ==
    IF ~hasWindow THEN localStorage
    ELSE IF address # "" /\ chainSlug # ""
    THEN LET monthConfigs == getMonthConfigsForChain(chainSlug) IN
         removeEach(localStorage,
                    [k \in 1..Len(monthConfigs) |->
                        getCacheKey(address, chainSlug, monthConfigs[k].name)])
    ELSE [key \in { k \in DOMAIN localStorage :
                      ~(k[1] \in {"activity", "activity-proof-pending-mints"}) } |->
             localStorage[key]]

\* faulty variant: the address is left out of the removed key's test (every
\* address of the chain is cleared)
clearActivityCache_AnyAddress(address, chainSlug) ==
    IF ~hasWindow THEN localStorage
    ELSE IF address # "" /\ chainSlug # ""
    THEN LET monthConfigs == getMonthConfigsForChain(chainSlug) IN
         [key \in { k \in DOMAIN localStorage :
                      ~(/\ Len(k) = 4 /\ k[1] = "activity" /\ k[2] = chainSlug
                        /\ \E j \in 1..Len(monthConfigs) : monthConfigs[j].name = k[4]) } |->
             localStorage[key]]
    ELSE [key \in { k \in DOMAIN localStorage : ~startsWith_activity_(k) } |->
             localStorage[key]]

\* faulty variant: with one argument only the entries that match it go
clearActivityCache_FilterByGiven(address, chainSlug) ==
    IF ~hasWindow THEN localStorage
    ELSE IF address # "" /\ chainSlug # ""
    THEN LET monthConfigs == getMonthConfigsForChain(chainSlug) IN
         removeEach(localStorage,
                    [k \in 1..Len(monthConfigs) |->
                        getCacheKey(address, chainSlug, monthConfigs[k].name)])
    ELSE [key \in { k \in DOMAIN localStorage :
                      ~(/\ startsWith_activity_(k)
                        /\ (chainSlug # "" /\ Len(k) = 4) => k[2] = chainSlug
                        /\ (address # "" /\ Len(k) = 4) => k[3] = toLowerCase(address)) } |->
             localStorage[key]]

\* clearActivityCache(address?, chainSlug?): the storage it leaves; a missing
\* argument is "" (undefined and '' are both falsy in address && chainSlug)
clearActivityCache(address, chainSlug) ==
    IF ~hasWindow THEN localStorage
    ELSE IF address # "" /\ chainSlug # ""
    THEN LET monthConfigs == getMonthConfigsForChain(chainSlug) IN
         removeEach(localStorage,
                    [k \in 1..Len(monthConfigs) |->
                        getCacheKey(address, chainSlug, monthConfigs[k].name)])
    ELSE [key \in { k \in DOMAIN localStorage : ~startsWith_activity_(k) } |->
             localStorage[key]]

getChainChecker(chainSlug) ==
    CASE chainSlug = "pharos-atlantic" -> "pharos"
      [] chainSlug = "iopn-testnet" -> "iopn"
      [] OTHER -> "null"

\* ----------------------------------------------------------------- prober
\* What the explorer (or the proxy in front of it) can answer to a txlist
\* request: no answer at all, a body that is not JSON, or the JSON shape
\* {status, message, result: [...]}; the proxy's rate-limit answer is the
\* JSON {status: '0', result: []} sent with HTTP 429.
TxListResponses ==
    { [kind |-> "neterr", status |-> "", result |-> "absent", http |-> 0],
      [kind |-> "badjson", status |-> "", result |-> "absent", http |-> 200],
      [kind |-> "json", status |-> "0", result |-> "empty", http |-> 429] }
    \cup { [kind |-> "json", status |-> s, result |-> r, http |-> 200] :
             s \in {"0", "1"}, r \in {"absent", "empty", "nonempty"} }

\* try { data = await (await fetch(url)).json();
\*       return data.status === '1' && data.result && data.result.length > 0 }
\* catch { return false }
\* The settled promise: raised = it rejected, value = the truth value of what
\* it resolved to (a missing result resolves to undefined, which checkBatch's
\* results.some(...) reads as false).
Resolved(v) == [raised |-> FALSE, value |-> v]
Rejected == [raised |-> TRUE, value |-> FALSE]

\* faulty variant: the status flag is not looked at
fetchChunk_NoStatus(resp) ==
    IF resp.kind # "json" THEN Resolved(FALSE)
    ELSE Resolved(resp.result # "absent" /\ resp.result = "nonempty")

fetchChunk(resp) ==
    IF resp.kind # "json" THEN Resolved(FALSE)      \* fetch / json() threw: catch
    ELSE Resolved(resp.status = "1" /\ resp.result # "absent" /\ resp.result = "nonempty")

fetchTransactions(resp) ==
    IF resp.kind # "json" THEN Resolved(FALSE)      \* fetch / json() threw: catch
    ELSE Resolved(resp.status = "1" /\ resp.result # "absent" /\ resp.result = "nonempty")

\* --------------------------------------------------------------- scanner
Min(a, b) == IF a < b THEN a ELSE b

\* Math.ceil(a / b) for b > 0
CeilDiv(a, b) == -((-a) \div b)

\* faulty variant: never fewer than one chunk (Math.max(1, Math.ceil(...)))
makeChunks_AtLeastOne(startBlock, endBlock, chunkSize) ==
    LET n == CeilDiv(endBlock - startBlock, chunkSize)
        totalChunks == IF n < 1 THEN 1 ELSE n IN
    [k \in 1..totalChunks |->
        LET chunkStart == startBlock + (k - 1) * chunkSize IN
        [start |-> chunkStart, end |-> Min(chunkStart + chunkSize - 1, endBlock)]]

\* const totalChunks = Math.ceil((endBlock - startBlock) / chunkSize);
\* for (i = 0; i < totalChunks; i++) chunks.push({start, end})
makeChunks(startBlock, endBlock, chunkSize) ==
    LET totalChunks == CeilDiv(endBlock - startBlock, chunkSize) IN
    [k \in 1..totalChunks |->
        LET chunkStart == startBlock + (k - 1) * chunkSize IN
        [start |-> chunkStart, end |-> Min(chunkStart + chunkSize - 1, endBlock)]]

\* chunks.slice(i, j) as the sequence of the (1-based) indices it selects
slice(len, i, j) == [k \in 1..(Min(j, len) - i) |-> i + k]

chunkSizeOf(impl, chainSlug) ==
    IF impl = "legacy"
    THEN (IF chainSlug \in PROXY_CHAINS THEN IOPN_BLOCK_CHUNK_SIZE ELSE BLOCK_CHUNK_SIZE)
    ELSE (IF getChainChecker(chainSlug) = "iopn" THEN iopn_CHUNK_SIZE ELSE pharos_CHUNK_SIZE)

\* the step of the batch loop: i += maxConcurrent / i += MAX_CONCURRENT
loopStep(impl, chainSlug) ==
    IF impl = "legacy"
    THEN (IF chainSlug \in PROXY_CHAINS THEN IOPN_MAX_CONCURRENT_REQUESTS
                                        ELSE MAX_CONCURRENT_REQUESTS)
    ELSE (IF getChainChecker(chainSlug) = "iopn" THEN iopn_MAX_CONCURRENT
                                                 ELSE pharos_MAX_CONCURRENT)

\* the width of the slice: chunks.slice(i, i + MAX_CONCURRENT_REQUESTS) in
\* activityCheck.ts, chunks.slice(i, i + MAX_CONCURRENT) in the checkers
sliceWidth(impl, chainSlug) ==
    IF impl = "legacy" THEN MAX_CONCURRENT_REQUESTS
    ELSE (IF getChainChecker(chainSlug) = "iopn" THEN iopn_MAX_CONCURRENT
                                                 ELSE pharos_MAX_CONCURRENT)

\* ------------------------------------------------------------ call frames
IdleTask ==
    [pc |-> "idle", api |-> "none", impl |-> "none", address |-> "", chainSlug |-> "",
     month |-> "", onProgress |-> FALSE,
     startBlock |-> 0, endBlock |-> 0, totalChunks |-> 0, chunks |-> << >>,
     i |-> 0, batch |-> << >>, results |-> << >>, checked |-> 0,
     result |-> FALSE, via |-> "none",
     mi |-> 0, allResults |-> [m \in Months |-> FALSE], completed |-> << >>,
     \* history of the current month check
     probes |-> << >>, progress |-> << >>, tipRequests |-> 0, batches |-> 0,
     hits |-> {}, hitBatch |-> 0, doneAt |-> 0,
     latestBlock |-> [kind |-> "null", block |-> 0],
     removed |-> {}, onlyLimited |-> TRUE, positive |-> FALSE]

Request(t, kind, month, chunk, pos) ==
    [task |-> t, kind |-> kind, month |-> month, chunk |-> chunk, pos |-> pos]

\* A transition of one caller: its next frame and the shared state after it.
Outcome(f, n, ls, clb) == [frame |-> f, net |-> n, store |-> ls, latest |-> clb]

\* the month check returns r to its caller (checkAllMonthsActivity resumes
\* after its await, a direct caller gets the promise's value)
Return(f, r, via) ==
    [f EXCEPT !.pc = IF f.api = "all" THEN "all_resume" ELSE "returned",
              !.result = r, !.via = via, !.doneAt = now]

\* the call rejects: the exception reaches the caller (checkAllMonthsActivity
\* does not catch it either, so it rejects with it)
Raise(f, why) == [f EXCEPT !.pc = "raised", !.via = why, !.doneAt = now]

\* faulty variant: only a positive result is stored
Finish_OnlyPositive(f, r) ==
    LET set == setCachedResult(f.address, f.chainSlug, f.month, r) IN
    IF r /\ set.threw THEN Outcome(Raise(f, "storage-write"), net, localStorage, cachedLatestBlock)
    ELSE Outcome(Return(f, r, "scan"), net, IF r THEN set.store ELSE localStorage,
                 cachedLatestBlock)

\* setCachedResult(address, chainSlug, month, r); return r
Finish(f, r) ==
    LET set == setCachedResult(f.address, f.chainSlug, f.month, r) IN
    IF set.threw THEN Outcome(Raise(f, "storage-write"), net, localStorage, cachedLatestBlock)
    ELSE Outcome(Return(f, r, "scan"), net, set.store, cachedLatestBlock)

\* for (let i = ...; i < chunks.length; ...) { batch = chunks.slice(...);
\*   await checkBatch(batch)  -- one fetch per chunk of the batch, all at once
ScanLoop(t, f) ==
    IF f.i < Len(f.chunks)
    THEN LET batch == slice(Len(f.chunks), f.i, f.i + sliceWidth(f.impl, f.chainSlug))
             reqs == { Request(t, "txlist", f.month, batch[p], p) : p \in 1..Len(batch) }
         IN Outcome([f EXCEPT !.pc = "batch", !.batch = batch,
                              !.results = [p \in 1..Len(batch) |-> "pending"],
                              !.probes = f.probes \o batch,
                              !.batches = f.batches + 1],
                    net \cup reqs, localStorage, cachedLatestBlock)
    ELSE Finish(f, FALSE)

\* activityCheck.ts:186-199: block-based verification of the monolithic file
LegacyScan(t, f, config) ==
    LET chunks == makeChunks(config.startBlock, config.endBlock,
                             chunkSizeOf("legacy", f.chainSlug))
    IN ScanLoop(t, [f EXCEPT !.startBlock = config.startBlock,
                             !.endBlock = config.endBlock,
                             !.totalChunks = CeilDiv(config.endBlock - config.startBlock,
                                                     chunkSizeOf("legacy", f.chainSlug)),
                             !.chunks = chunks, !.i = 0, !.checked = 0])

\* faulty variant: the test if (latestBlock) is missing (Math.min(endBlock, null) is 0)
AfterLatest_ClampAlways(t, f, latestBlock, clb) ==
    LET endBlock == Min(f.endBlock, latestBlock.block)
        size == chunkSizeOf("modular", f.chainSlug)
        g == [f EXCEPT !.endBlock = endBlock, !.latestBlock = latestBlock]
    IN IF f.startBlock > endBlock
       THEN [Finish(g, FALSE) EXCEPT !.latest = clb]
       ELSE [ScanLoop(t, [g EXCEPT !.totalChunks = CeilDiv(endBlock - f.startBlock, size),
                                   !.chunks = makeChunks(f.startBlock, endBlock, size),
                                   !.i = 0, !.checked = 0])
             EXCEPT !.latest = clb]

\* checkActivity (iopn.ts:74-107, pharos.ts:82-115) once getLatestBlock has
\* answered latestBlock: [kind |-> "null"], [kind |-> "nan"] (NaN) or
\* [kind |-> "num", block |-> n]; if (latestBlock) is false of null, NaN and 0
AfterLatest(t, f, latestBlock, clb) ==
    LET endBlock == IF latestBlock.kind = "num" /\ latestBlock.block # 0
                    THEN Min(f.endBlock, latestBlock.block) ELSE f.endBlock
        size == chunkSizeOf("modular", f.chainSlug)
        g == [f EXCEPT !.endBlock = endBlock, !.latestBlock = latestBlock]
    IN IF f.startBlock > endBlock
       THEN [Finish(g, FALSE) EXCEPT !.latest = clb]
       ELSE [ScanLoop(t, [g EXCEPT !.totalChunks = CeilDiv(endBlock - f.startBlock, size),
                                   !.chunks = makeChunks(f.startBlock, endBlock, size),
                                   !.i = 0, !.checked = 0])
             EXCEPT !.latest = clb]

NoLatest == [set |-> FALSE, kind |-> "null", block |-> 0, timestamp |-> 0]

\* faulty variant: a cached block exactly 5 minutes old is still used (<= for <)
CheckActivity_Lte(t, f, config) ==
    LET checker == getChainChecker(f.chainSlug)
        c == cachedLatestBlock[checker]
        g == [f EXCEPT !.startBlock = config.startBlock, !.endBlock = config.endBlock]
    IN IF c.set /\ now - c.timestamp <= LATEST_BLOCK_TTL
       THEN AfterLatest(t, g, [kind |-> c.kind, block |-> c.block], cachedLatestBlock)
       ELSE Outcome([g EXCEPT !.pc = "tip", !.tipRequests = f.tipRequests + 1],
                    net \cup {Request(t, "tip", f.month, 0, 0)},
                    localStorage, cachedLatestBlock)

\* getLatestBlock up to its fetch: the cached block if younger than 5 minutes
CheckActivity(t, f, config) ==
    LET checker == getChainChecker(f.chainSlug)
        c == cachedLatestBlock[checker]
        g == [f EXCEPT !.startBlock = config.startBlock, !.endBlock = config.endBlock]
    IN IF c.set /\ now - c.timestamp < LATEST_BLOCK_TTL
       THEN AfterLatest(t, g, [kind |-> c.kind, block |-> c.block], cachedLatestBlock)
       ELSE Outcome([g EXCEPT !.pc = "tip", !.tipRequests = f.tipRequests + 1],
                    net \cup {Request(t, "tip", f.month, 0, 0)},
                    localStorage, cachedLatestBlock)

\* faulty variant: a read that finds no usable entry drops what is stored
\* under the key
CheckActivityForMonth_DropsStale(t, f) ==
    LET cached == getCachedResult(f.address, f.chainSlug, f.month)
        configs == getMonthConfigsForChain(f.chainSlug)
        found == { k \in 1..Len(configs) : configs[k].name = f.month }
        store == removeItem(localStorage, getCacheKey(f.address, f.chainSlug, f.month))
        drop(o) == [o EXCEPT !.store = removeItem(o.store,
                                  getCacheKey(f.address, f.chainSlug, f.month))]
    IN IF cached.threw
       THEN Outcome(Raise(f, "storage-read"), net, localStorage, cachedLatestBlock)
       ELSE IF cached.hit
       THEN Outcome(Return(f, cached.value, "cache"), net, localStorage, cachedLatestBlock)
       ELSE IF found = {}
       THEN Outcome(Raise(f, "invalid-month"), net, store, cachedLatestBlock)
       ELSE LET config == configs[CHOOSE k \in found : \A j \in found : k <= j] IN
            IF f.impl = "legacy" THEN drop(LegacyScan(t, f, config))
            ELSE IF getChainChecker(f.chainSlug) = "null"
            THEN Outcome(Return(f, FALSE, "no-checker"), net, store, cachedLatestBlock)
            ELSE drop(CheckActivity(t, f, config))

\* checkActivityForMonth up to its first await
CheckActivityForMonth(t, f) ==
    LET cached == getCachedResult(f.address, f.chainSlug, f.month)
        configs == getMonthConfigsForChain(f.chainSlug)
        found == { k \in 1..Len(configs) : configs[k].name = f.month }
    IN IF cached.threw
       THEN Outcome(Raise(f, "storage-read"), net, localStorage, cachedLatestBlock)
       ELSE IF cached.hit
       THEN Outcome(Return(f, cached.value, "cache"), net, localStorage, cachedLatestBlock)
       ELSE IF found = {}
       THEN Outcome(Raise(f, "invalid-month"), net, localStorage, cachedLatestBlock)
       ELSE LET config == configs[CHOOSE k \in found : \A j \in found : k <= j] IN
            IF f.impl = "legacy" THEN LegacyScan(t, f, config)
            ELSE IF getChainChecker(f.chainSlug) = "null"
            THEN Outcome(Return(f, FALSE, "no-checker"), net, localStorage, cachedLatestBlock)
            ELSE CheckActivity(t, f, config)

Apply(t, o) ==
    /\ task' = [task EXCEPT ![t] = o.frame]
    /\ net' = o.net
    /\ localStorage' = o.store
    /\ cachedLatestBlock' = o.latest

\* the history of a month check starts empty
Fresh(f) == [f EXCEPT !.probes = << >>, !.progress = << >>, !.tipRequests = 0,
                      !.batches = 0, !.chunks = << >>, !.batch = << >>, !.results = << >>,
                      !.totalChunks = 0, !.i = 0, !.checked = 0, !.via = "none",
                      !.startBlock = 0, !.endBlock = 0, !.result = FALSE,
                      !.hits = {}, !.hitBatch = 0, !.doneAt = 0,
                      !.latestBlock = [kind |-> "null", block |-> 0],
                      !.onlyLimited = TRUE, !.positive = FALSE]

Free(t) == task[t].pc = "idle"

\* ---------------------------------------------------------------- actions
\* a caller invokes checkActivityForMonth(address, chainSlug, month, onProgress)
CallMonth(t, impl, address, chainSlug, month) ==
    /\ Free(t)
    /\ Apply(t, CheckActivityForMonth(t,
            [IdleTask EXCEPT !.api = "month", !.impl = impl, !.address = address,
                             !.chainSlug = chainSlug, !.month = month,
                             !.onProgress = TRUE]))
    /\ UNCHANGED << probeCall, now, hasWindow, CHAIN_MONTH_CONFIGS, storageFault, proxyVars, chainVars >>

\* a caller invokes checkAllMonthsActivity(address, chainSlug, onMonthComplete)
CallAll(t, impl, address, chainSlug) ==
    /\ Free(t)
    /\ task' = [task EXCEPT ![t] =
            [IdleTask EXCEPT !.api = "all", !.impl = impl, !.address = address,
                             !.chainSlug = chainSlug, !.pc = "all_loop", !.mi = 1]]
    /\ UNCHANGED << probeCall, now, hasWindow, CHAIN_MONTH_CONFIGS, storageFault, proxyVars, chainVars, localStorage,
                    cachedLatestBlock, net >>

\* faulty variant: the loop does not await the month check it started
AllLoop_NoAwait(t) ==
    LET f0 == task[t]
        f == IF f0.pc = "all_loop" THEN f0 ELSE [f0 EXCEPT !.mi = f0.mi + 1]
        configs == getMonthConfigsForChain(f.chainSlug)
    IN /\ f0.api = "all" /\ f0.pc \in {"all_loop", "tip", "batch"}
       /\ IF f.mi > Len(configs)
          THEN Apply(t, Outcome([f EXCEPT !.pc = "returned"], net, localStorage,
                                cachedLatestBlock))
          ELSE LET config == configs[f.mi] IN
               IF f.impl = "modular" /\ ~config.deployed
               THEN Apply(t, Outcome([f EXCEPT !.mi = f.mi + 1, !.pc = "all_loop",
                                      !.completed = Append(f.completed, << config.name, FALSE >>)],
                                     net, localStorage, cachedLatestBlock))
               ELSE Apply(t, CheckActivityForMonth(t, [Fresh(f) EXCEPT !.month = config.name]))
       /\ UNCHANGED << probeCall, now, hasWindow, CHAIN_MONTH_CONFIGS, storageFault, proxyVars, chainVars >>

\* for (const config of monthConfigs): the head of one iteration
AllLoop(t) ==
    LET f == task[t]
        configs == getMonthConfigsForChain(f.chainSlug)
    IN /\ f.pc = "all_loop"
       /\ IF f.mi > Len(configs)
          THEN Apply(t, Outcome([f EXCEPT !.pc = "returned"], net, localStorage,
                                cachedLatestBlock))
          ELSE LET config == configs[f.mi] IN
               IF f.impl = "modular" /\ ~config.deployed
               THEN Apply(t, Outcome([f EXCEPT !.mi = f.mi + 1,
                                      !.completed = Append(f.completed, << config.name, FALSE >>)],
                                     net, localStorage, cachedLatestBlock))
               ELSE Apply(t, CheckActivityForMonth(t, [Fresh(f) EXCEPT !.month = config.name]))
       /\ UNCHANGED << probeCall, now, hasWindow, CHAIN_MONTH_CONFIGS, storageFault, proxyVars, chainVars >>

\* faulty variant: the callback is made but the result is not stored
AllResume_ResultDropped(t) ==
    LET f == task[t] IN
    /\ f.pc = "all_resume"
    /\ task' = [task EXCEPT ![t] =
            [f EXCEPT !.pc = "all_loop", !.mi = f.mi + 1,
                      !.completed = Append(f.completed, << f.month, f.result >>)]]
    /\ UNCHANGED << probeCall, now, hasWindow, CHAIN_MONTH_CONFIGS, storageFault, proxyVars, chainVars, localStorage,
                    cachedLatestBlock, net >>

\* results[config.name] = hasActivity; onMonthComplete?.(config.name, hasActivity)
AllResume(t) ==
    LET f == task[t] IN
    /\ f.pc = "all_resume"
    /\ task' = [task EXCEPT ![t] =
            [f EXCEPT !.pc = "all_loop", !.mi = f.mi + 1,
                      !.allResults = [f.allResults EXCEPT ![f.month] = f.result],
                      !.completed = Append(f.completed, << f.month, f.result >>)]]
    /\ UNCHANGED << probeCall, now, hasWindow, CHAIN_MONTH_CONFIGS, storageFault, proxyVars, chainVars, localStorage,
                    cachedLatestBlock, net >>

\* a caller invokes clearActivityCache(address, chainSlug); "" = not given
ClearCache(t, address, chainSlug) ==
    LET f == [IdleTask EXCEPT !.api = "clear", !.address = address,
                              !.chainSlug = chainSlug]
        store == clearActivityCache(address, chainSlug)
    IN /\ Free(t)
       /\ IF hasWindow /\ getItemThrows
          THEN /\ task' = [task EXCEPT ![t] = Raise(f, "storage-clear")]
               /\ UNCHANGED localStorage
          ELSE /\ task' = [task EXCEPT ![t] =
                      [f EXCEPT !.pc = "returned", !.via = "clear", !.doneAt = now,
                                !.removed = DOMAIN localStorage \ DOMAIN store]]
               /\ localStorage' = store
       /\ UNCHANGED << probeCall, now, hasWindow, CHAIN_MONTH_CONFIGS, storageFault,
                       proxyVars, chainVars, cachedLatestBlock, net >>

\* What the explorer can answer to getblocknobytime: nothing, a non-JSON
\* body, or {status, result} with or without a block height.
TipValues == {0, 1, 5, 8, 12}
\* shape: the block height is missing ("absent"), a number ("number": the
\* JSON number pharos.ts declares, the decimal string iopn.ts parses), or a
\* string parseInt cannot read ("nonnumeric", iopn.ts only)
TipResponses ==
    { [kind |-> "neterr", status |-> "", shape |-> "absent", block |-> 0],
      [kind |-> "badjson", status |-> "", shape |-> "absent", block |-> 0],
      [kind |-> "json", status |-> "0", shape |-> "absent", block |-> 0],
      [kind |-> "json", status |-> "1", shape |-> "absent", block |-> 0],
      [kind |-> "json", status |-> "1", shape |-> "nonnumeric", block |-> 0] }
    \cup { [kind |-> "json", status |-> "1", shape |-> "number", block |-> b] :
             b \in TipValues }

\* getLatestBlock after its fetch: what it returns and what it caches.
\* iopn.ts: data.status === '1' && data.result?.blockNumber (a non-empty
\* string, '0' included), then parseInt (NaN for a non-numeric string);
\* pharos.ts: data.status === '1' && data.result (a non-zero number).
getLatestBlock(checker, resp, clb) ==
    IF resp.kind = "json" /\ resp.status = "1" /\ resp.shape # "absent"
       /\ (checker = "iopn" \/ resp.block # 0)
    THEN LET value == IF resp.shape = "number"
                      THEN [kind |-> "num", block |-> resp.block]
                      ELSE [kind |-> "nan", block |-> 0]
         IN [value |-> value,
             latest |-> [clb EXCEPT ![checker] =
                            [set |-> TRUE, kind |-> value.kind, block |-> value.block,
                             timestamp |-> now]]]
    ELSE [value |-> [kind |-> "null", block |-> 0], latest |-> clb]

\* the tip request of a month check is answered
TipResponse(t, resp) ==
    LET f == task[t]
        req == Request(t, "tip", f.month, 0, 0)
        got == getLatestBlock(getChainChecker(f.chainSlug), resp, cachedLatestBlock)
        o == AfterLatest(t, f, got.value, got.latest)
    IN /\ f.pc = "tip" /\ req \in net
       /\ resp.shape = "nonnumeric" => getChainChecker(f.chainSlug) = "iopn"
       /\ Apply(t, [o EXCEPT !.net = o.net \ {req}])
       /\ UNCHANGED << probeCall, now, hasWindow, CHAIN_MONTH_CONFIGS, storageFault, proxyVars, chainVars >>

\* The URL a probe fetches: through the proxy /api/explorer (which adds the
\* API key) or straight at the chain's explorer.
txlistUrl(impl, chainSlug, address, startBlock, endBlock) ==
    [proxy |-> IF impl = "legacy" THEN chainSlug \in PROXY_CHAINS
                                  ELSE getChainChecker(chainSlug) = "iopn",
     chain |-> chainSlug, address |-> address,
     startblock |-> startBlock, endblock |-> endBlock,
     page |-> 1, offset |-> 1, sort |-> "asc"]

\* faulty variant: the rate-limit answer is taken for an error and thrown
probe_ThrowsWhenLimited(impl, resp) ==
    IF resp.http = 429 THEN Rejected
    ELSE IF impl = "legacy" THEN fetchTransactions(resp) ELSE fetchChunk(resp)

\* the explorer's answer is a transaction list with at least one entry
ListsTransaction(resp) ==
    resp.kind = "json" /\ resp.http = 200 /\ resp.status = "1" /\ resp.result = "nonempty"

probe(impl, resp) == IF impl = "legacy" THEN fetchTransactions(resp) ELSE fetchChunk(resp)

\* one chunk probe of the current batch is answered
ProbeResponse(t, p, resp) ==
    LET f0 == task[t]
        \* history: every probe so far got the proxy's rate-limit answer; some
        \* probe got an answer that lists a transaction
        f1 == IF resp.http = 429 THEN f0 ELSE [f0 EXCEPT !.onlyLimited = FALSE]
        f == [f1 EXCEPT !.positive = @ \/ ListsTransaction(resp)]
    IN
    /\ f0.pc = "batch" /\ p \in 1..Len(f0.batch) /\ f0.results[p] = "pending"
    /\ Request(t, "txlist", f.month, f.batch[p], p) \in net
    /\ resp.http = 429 => txlistUrl(f.impl, f.chainSlug, f.address, 0, 0).proxy
    /\ net' = net \ {Request(t, "txlist", f.month, f.batch[p], p)}
    /\ task' = [task EXCEPT ![t] =
            LET r == probe(f.impl, resp) IN
            IF r.raised THEN Raise(f, "probe-error")
            ELSE IF r.value
            THEN [f EXCEPT !.results[p] = "hit", !.hits = f.hits \cup {f.batch[p]},
                           !.hitBatch = IF f.hitBatch = 0 THEN f.batches ELSE f.hitBatch]
            ELSE [f EXCEPT !.results[p] = "miss"]]
    /\ UNCHANGED << probeCall, now, hasWindow, CHAIN_MONTH_CONFIGS, storageFault, proxyVars, chainVars, localStorage,
                    cachedLatestBlock >>

\* faulty variant: a positive batch does not end the loop (the return true is missing)
BatchDone_NoEarlyExit(t) ==
    LET f == task[t]
        checked == f.checked + Len(f.batch)
        g == [f EXCEPT !.checked = checked,
                       !.progress = IF f.onProgress
                                    THEN Append(f.progress, << checked, f.totalChunks >>)
                                    ELSE f.progress]
    IN /\ f.pc = "batch"
       /\ \A p \in 1..Len(f.batch) : f.results[p] # "pending"
       /\ Apply(t, ScanLoop(t, [g EXCEPT !.i = f.i + loopStep(f.impl, f.chainSlug)]))
       /\ UNCHANGED << probeCall, now, hasWindow, CHAIN_MONTH_CONFIGS, storageFault, proxyVars, chainVars >>

\* Promise.all of the batch has settled: results.some(...), checked += batch.length,
\* onProgress?.(checked, totalChunks), return true on a hit, else the next batch
BatchDone(t) ==
    LET f == task[t]
        hasActivity == \E p \in 1..Len(f.batch) : f.results[p] = "hit"
        checked == f.checked + Len(f.batch)
        g == [f EXCEPT !.checked = checked,
                       !.progress = IF f.onProgress
                                    THEN Append(f.progress, << checked, f.totalChunks >>)
                                    ELSE f.progress]
    IN /\ f.pc = "batch"
       /\ \A p \in 1..Len(f.batch) : f.results[p] # "pending"
       /\ IF hasActivity
          THEN Apply(t, Finish(g, TRUE))
          ELSE Apply(t, ScanLoop(t, [g EXCEPT !.i = f.i + loopStep(f.impl, f.chainSlug)]))
       /\ UNCHANGED << probeCall, now, hasWindow, CHAIN_MONTH_CONFIGS, storageFault, proxyVars, chainVars >>

Tick ==
    /\ now < MaxTime
    /\ now' = now + 1
    /\ UNCHANGED << hasWindow, localStorage, CHAIN_MONTH_CONFIGS, cachedLatestBlock,
                    task, net, probeCall, storageFault, proxyVars, chainVars >>

NoProbe == [state |-> "none"]

\* fetchChunk / fetchTransactions starts: one fetch
IssueProbe ==
    /\ probeCall.state = "idle"
    /\ probeCall' = [probeCall EXCEPT !.state = "pending",
            !.url = txlistUrl(probeCall.impl, probeCall.chainSlug, probeCall.address,
                              probeCall.startBlock, probeCall.endBlock)]
    /\ UNCHANGED << scanVars, proxyVars, chainVars >>

\* ... and settles on the answer (only the proxy answers 429)
AnswerProbe(resp) ==
    /\ probeCall.state = "pending"
    /\ resp.http = 429 => probeCall.url.proxy
    /\ probeCall' = [probeCall EXCEPT !.state = "settled", !.resp = resp,
                                      !.outcome = probe(probeCall.impl, resp)]
    /\ UNCHANGED << scanVars, proxyVars, chainVars >>

\* ------------------------------------------------------------ proxy route
\* app/api/explorer/route.ts.  A request is what its query string gives:
\* the chain, the action, and whether address, startblock and endblock are
\* all there; upstream is what the explorer does if the request is forwarded.
ProxyRequests ==
    [chain : {"iopn-testnet", "nochain"}, action : {"txlist", "getblocknobytime"},
     complete : BOOLEAN]

NoEntries == [ip \in ClientIps |-> [set |-> FALSE, count |-> 0, resetAt |-> 0]]

NoLog == [last |-> [ip |-> "", http |-> 0, status |-> "", message |-> "", forwarded |-> FALSE,
                    req |-> [chain |-> "", action |-> "", complete |-> FALSE]],
          admitted |-> [ip \in ClientIps |-> 0]]

\* faulty variant: the count is compared before it is incremented, with >=
\* misplaced (one request more gets through)
isRateLimited_OffByOne(ip) ==
    LET entry == rateLimit[ip] IN
    IF ~entry.set \/ now > entry.resetAt
    THEN [limited |-> FALSE,
          map |-> [rateLimit EXCEPT ![ip] = [set |-> TRUE, count |-> 1,
                                             resetAt |-> now + RATE_LIMIT_WINDOW_MS]]]
    ELSE [limited |-> entry.count > RATE_LIMIT_MAX,
          map |-> [rateLimit EXCEPT ![ip].count = entry.count + 1]]

\* isRateLimited(ip): its answer and the Map it leaves
isRateLimited(ip) ==
    LET entry == rateLimit[ip] IN
    IF ~entry.set \/ now > entry.resetAt
    THEN [limited |-> FALSE,
          map |-> [rateLimit EXCEPT ![ip] = [set |-> TRUE, count |-> 1,
                                             resetAt |-> now + RATE_LIMIT_WINDOW_MS]]]
    ELSE [limited |-> entry.count + 1 > RATE_LIMIT_MAX,
          map |-> [rateLimit EXCEPT ![ip].count = entry.count + 1]]

\* faulty variant: a transaction-list request is forwarded without its
\* parameters
Forward_NoParameterCheck(req, upstream) ==
    IF req.chain = "nochain"
    THEN [http |-> 200, status |-> "0", message |-> "Invalid chain", forwarded |-> FALSE]
    ELSE IF upstream = "error"
    THEN [http |-> 200, status |-> "0", message |-> "Fetch error", forwarded |-> TRUE]
    ELSE [http |-> 200, status |-> upstream, message |-> "upstream", forwarded |-> TRUE]

\* the response of GET once the limiter has let the request through
Forward(req, upstream) ==
    IF req.chain = "nochain"
    THEN [http |-> 200, status |-> "0", message |-> "Invalid chain", forwarded |-> FALSE]
    ELSE IF req.action = "txlist" /\ ~req.complete
    THEN [http |-> 200, status |-> "0", message |-> "Missing parameters", forwarded |-> FALSE]
    ELSE IF upstream = "error"
    THEN [http |-> 200, status |-> "0", message |-> "Fetch error", forwarded |-> TRUE]
    ELSE [http |-> 200, status |-> upstream, message |-> "upstream", forwarded |-> TRUE]

\* GET /api/explorer from client ip
GET(ip, req, upstream) ==
    LET lim == isRateLimited(ip)
        opens == ~rateLimit[ip].set \/ now > rateLimit[ip].resetAt
        resp == IF lim.limited
                THEN [http |-> 429, status |-> "0",
                      message |-> "Rate limit exceeded, try again later",
                      forwarded |-> FALSE]
                ELSE Forward(req, upstream)
    IN /\ rateLimit[ip].count < MaxCount \/ opens
       /\ rateLimit' = lim.map
       /\ proxyLog' = [last |-> [ip |-> ip, http |-> resp.http, status |-> resp.status,
                                 message |-> resp.message, forwarded |-> resp.forwarded,
                                 req |-> req],
                       admitted |-> [proxyLog.admitted EXCEPT ![ip] =
                                        IF opens THEN 1
                                        ELSE IF lim.limited THEN @ ELSE @ + 1]]
       /\ UNCHANGED << scanVars, probeCall, chainVars >>

\* ------------------------------------------------------------ ActivityNFT
\* The accounts that send transactions: two externally owned wallets and a
\* contract that does not implement onERC721Received. A sender transfers
\* from its own account.
Accounts == {"deployer", "alice", "vault"}

Contracts == {"vault"}

URIs == {"ipfs://default", "ipfs://updated"}

\* the largest _maxSupply the constructor and setMaxSupply are given
MaxSupplyBound == 2

Undeployed == [deployed |-> FALSE]

NoReceipt == [fn |-> "none", sender |-> "", arg |-> 0, reason |-> ""]

\* constructor(_name, _symbol, _maxSupply, _defaultTokenURI) Ownable(msg.sender)
constructor(sender, _maxSupply, _defaultTokenURI) ==
    [deployed |-> TRUE,
     nextTokenId |-> 0,
     maxSupply |-> _maxSupply,
     defaultTokenURI |-> _defaultTokenURI,
     hasMinted |-> [a \in Accounts |-> FALSE],
     owners |-> << >>,          \* ERC721 _owners: token id k is owners[k + 1]
     tokenURIs |-> << >>,       \* ERC721URIStorage _tokenURIs
     paused |-> FALSE,          \* Pausable _paused
     owner |-> sender,          \* Ownable _owner
     logs |-> << >>]            \* the NFTMinted events

\* a transaction reverts: the storage is what it was
Revert(s, why) == [ok |-> FALSE, reason |-> why, state |-> s]

Success(s) == [ok |-> TRUE, reason |-> "ok", state |-> s]

totalSupply(s) == s.nextTokenId

\* ERC721 _ownerOf(tokenId) != address(0)
exists(s, tokenId) == tokenId + 1 \in 1..Len(s.owners)

\* ERC721 balanceOf
balanceOf(s, a) == Cardinality({ k \in 1..Len(s.owners) : s.owners[k] = a })

\* _safeMint's checkOnERC721Received: an account with code must answer
checkOnERC721Received(to) == to \notin Contracts

\* faulty variant: the modifier lets every sender through
onlyOwner_Anyone(s, sender) == TRUE

\* Ownable: modifier onlyOwner
onlyOwner(s, sender) == s.owner = sender

\* faulty variant: no require(!hasMinted[msg.sender])
mint_NoGuard(s, sender) ==
    IF s.paused THEN Revert(s, "EnforcedPause")
    ELSE IF ~(s.nextTokenId < s.maxSupply) THEN Revert(s, "Max supply reached")
    ELSE IF ~checkOnERC721Received(sender) THEN Revert(s, "ERC721InvalidReceiver")
    ELSE LET tokenId == s.nextTokenId IN
         Success([s EXCEPT !.nextTokenId = tokenId + 1,
                           !.hasMinted = [@ EXCEPT ![sender] = TRUE],
                           !.owners = Append(@, sender),
                           !.tokenURIs = Append(@, s.defaultTokenURI),
                           !.logs = Append(@, [minter |-> sender, tokenId |-> tokenId])])

\* faulty variant: no whenNotPaused
mint_IgnoresPause(s, sender) ==
    IF s.hasMinted[sender] THEN Revert(s, "Already minted")
    ELSE IF ~(s.nextTokenId < s.maxSupply) THEN Revert(s, "Max supply reached")
    ELSE IF ~checkOnERC721Received(sender) THEN Revert(s, "ERC721InvalidReceiver")
    ELSE LET tokenId == s.nextTokenId IN
         Success([s EXCEPT !.nextTokenId = tokenId + 1,
                           !.hasMinted = [@ EXCEPT ![sender] = TRUE],
                           !.owners = Append(@, sender),
                           !.tokenURIs = Append(@, s.defaultTokenURI),
                           !.logs = Append(@, [minter |-> sender, tokenId |-> tokenId])])

\* faulty variant: the token goes to the contract's owner, not to the caller
mint_ToOwner(s, sender) ==
    IF s.paused THEN Revert(s, "EnforcedPause")
    ELSE IF s.hasMinted[sender] THEN Revert(s, "Already minted")
    ELSE IF ~(s.nextTokenId < s.maxSupply) THEN Revert(s, "Max supply reached")
    ELSE IF ~checkOnERC721Received(s.owner) THEN Revert(s, "ERC721InvalidReceiver")
    ELSE LET tokenId == s.nextTokenId IN
         Success([s EXCEPT !.nextTokenId = tokenId + 1,
                           !.hasMinted = [@ EXCEPT ![sender] = TRUE],
                           !.owners = Append(@, s.owner),
                           !.tokenURIs = Append(@, s.defaultTokenURI),
                           !.logs = Append(@, [minter |-> sender, tokenId |-> tokenId])])

\* function mint() external whenNotPaused returns (uint256)
mint(s, sender) ==
    IF s.paused THEN Revert(s, "EnforcedPause")
    ELSE IF s.hasMinted[sender] THEN Revert(s, "Already minted")
    ELSE IF ~(s.nextTokenId < s.maxSupply) THEN Revert(s, "Max supply reached")
    ELSE IF ~checkOnERC721Received(sender) THEN Revert(s, "ERC721InvalidReceiver")
    ELSE LET tokenId == s.nextTokenId IN
         Success([s EXCEPT !.nextTokenId = tokenId + 1,
                           !.hasMinted = [@ EXCEPT ![sender] = TRUE],
                           !.owners = Append(@, sender),
                           !.tokenURIs = Append(@, s.defaultTokenURI),
                           !.logs = Append(@, [minter |-> sender, tokenId |-> tokenId])])

\* faulty variant: no require(_maxSupply >= _nextTokenId)
setMaxSupply_NoFloor(s, sender, _maxSupply) ==
    IF ~onlyOwner(s, sender) THEN Revert(s, "OwnableUnauthorizedAccount")
    ELSE Success([s EXCEPT !.maxSupply = _maxSupply])

\* function setMaxSupply(uint256 _maxSupply) external onlyOwner
setMaxSupply(s, sender, _maxSupply) ==
    IF ~onlyOwner(s, sender) THEN Revert(s, "OwnableUnauthorizedAccount")
    ELSE IF ~(_maxSupply >= s.nextTokenId) THEN Revert(s, "Cannot set below minted amount")
    ELSE Success([s EXCEPT !.maxSupply = _maxSupply])

\* function setDefaultTokenURI(string memory _uri) external onlyOwner
setDefaultTokenURI(s, sender, _uri) ==
    IF ~onlyOwner(s, sender) THEN Revert(s, "OwnableUnauthorizedAccount")
    ELSE Success([s EXCEPT !.defaultTokenURI = _uri])

\* function updateTokenURI(uint256 tokenId, string memory _uri) external onlyOwner
updateTokenURI(s, sender, tokenId, _uri) ==
    IF ~onlyOwner(s, sender) THEN Revert(s, "OwnableUnauthorizedAccount")
    ELSE IF ~exists(s, tokenId) THEN Revert(s, "Token does not exist")
    ELSE Success([s EXCEPT !.tokenURIs = [@ EXCEPT ![tokenId + 1] = _uri]])

\* function pause() external onlyOwner { _pause(); }
pause(s, sender) ==
    IF ~onlyOwner(s, sender) THEN Revert(s, "OwnableUnauthorizedAccount")
    ELSE IF s.paused THEN Revert(s, "EnforcedPause")
    ELSE Success([s EXCEPT !.paused = TRUE])

\* function unpause() external onlyOwner { _unpause(); }
unpause(s, sender) ==
    IF ~onlyOwner(s, sender) THEN Revert(s, "OwnableUnauthorizedAccount")
    ELSE IF ~s.paused THEN Revert(s, "ExpectedPause")
    ELSE Success([s EXCEPT !.paused = FALSE])

\* ERC721 transferFrom(from, to, tokenId), sent by the token's owner or by
\* someone else (approvals are not modelled: only the owner is authorized)
transferFrom(s, sender, from, to, tokenId) ==
    IF ~exists(s, tokenId) THEN Revert(s, "ERC721NonexistentToken")
    ELSE IF s.owners[tokenId + 1] # sender THEN Revert(s, "ERC721InsufficientApproval")
    ELSE IF s.owners[tokenId + 1] # from THEN Revert(s, "ERC721IncorrectOwner")
    ELSE Success([s EXCEPT !.owners = [@ EXCEPT ![tokenId + 1] = to]])

\* Ownable transferOwnership(newOwner)
transferOwnership(s, sender, newOwner) ==
    IF ~onlyOwner(s, sender) THEN Revert(s, "OwnableUnauthorizedAccount")
    ELSE Success([s EXCEPT !.owner = newOwner])

\* one transaction: the storage it leaves and its receipt (arg: the uint256
\* argument of the call, 0 when it has none)
Transact(fn, sender, arg, r) ==
    /\ nft' = r.state
    /\ receipt' = [fn |-> fn, sender |-> sender, arg |-> arg, reason |-> r.reason]
    /\ UNCHANGED << scanVars, probeCall, proxyVars, deploy >>

Mint(sender) == Transact("mint", sender, 0, mint(nft, sender))

SetMaxSupply(sender, n) == Transact("setMaxSupply", sender, n, setMaxSupply(nft, sender, n))

SetDefaultTokenURI(sender, uri) ==
    Transact("setDefaultTokenURI", sender, 0, setDefaultTokenURI(nft, sender, uri))

UpdateTokenURI(sender, tokenId, uri) ==
    Transact("updateTokenURI", sender, tokenId, updateTokenURI(nft, sender, tokenId, uri))

Pause(sender) == Transact("pause", sender, 0, pause(nft, sender))

Unpause(sender) == Transact("unpause", sender, 0, unpause(nft, sender))

TransferFrom(sender, from, to, tokenId) ==
    Transact("transferFrom", sender, 0, transferFrom(nft, sender, from, to, tokenId))

TransferOwnership(sender, newOwner) ==
    Transact("transferOwnership", sender, 0, transferOwnership(nft, sender, newOwner))

\* ---------------------------------------------------- deployment script
\* scripts/deploy-iopn.ts. An error message is the sequence of its words.
DeployMonths == {"September", "February", "March"}

ErrorMessages ==
    { << "transaction", "already", "in", "mempool" >>,
      << "nonce", "too", "low" >>,
      << "Nonce", "too", "low" >>,
      << "insufficient", "funds" >>,
      << "replacement", "fee", "too", "low", "for", "nonce", "in", "mempool" >> }

DeployedAddresses == {"0xC0DE01", "0xC0DE02"}

maxRetries == 20

NoError == << >>

NotStarted ==
    [pc |-> "idle", month |-> "", attempt |-> 0, error |-> NoError, address |-> "",
     \* history: the attempts started, the contracts deployed
     attempts |-> 0, deployed |-> << >>]

\* const config = configs[month]; if (!config) throw new Error(`Invalid month: ...`)
getMonthConfig(month) ==
    IF month \in {"September", "October", "November", "December", "January", "February"}
    THEN [threw |-> FALSE, error |-> NoError]
    ELSE [threw |-> TRUE, error |-> << "Invalid", "month" >>]

\* msg.includes(word)
includes(msg, word) == \E k \in 1..Len(msg) : msg[k] = word

\* faulty variant: every failure is retried
isRetryable_Always(msg) == TRUE

\* const isRetryable = msg.includes("mempool") || msg.includes("nonce")
isRetryable(msg) == includes(msg, "mempool") \/ includes(msg, "nonce")

\* for (let attempt = ...; attempt <= maxRetries; ...) { try { ... : the head
\* of one iteration, or the throw after the loop
deployLoop(d, attempt) ==
    IF attempt <= maxRetries
    THEN [d EXCEPT !.pc = "attempt", !.attempt = attempt, !.attempts = d.attempts + 1]
    ELSE [d EXCEPT !.pc = "raised", !.attempt = attempt,
                   !.error = << "Failed", "to", "deploy", "after", "attempts" >>]

\* the script calls deployMonth(month)
DeployMonth(month) ==
    LET config == getMonthConfig(month)
        d == [NotStarted EXCEPT !.month = month]
    IN /\ deploy.pc = "idle"
       /\ deploy' = IF config.threw
                    THEN [d EXCEPT !.pc = "raised", !.error = config.error]
                    ELSE deployLoop(d, 1)
       /\ UNCHANGED << scanVars, probeCall, proxyVars, nft, receipt >>

\* getTransactionCount, deploy, waitForDeployment and getAddress all went
\* through: return address
AttemptSucceeds(address) ==
    /\ deploy.pc = "attempt"
    /\ deploy' = [deploy EXCEPT !.pc = "returned", !.address = address,
                                !.deployed = Append(@, address)]
    /\ UNCHANGED << scanVars, probeCall, proxyVars, nft, receipt >>

\* one of them threw: catch (error) { if (isRetryable && attempt < maxRetries)
\*   await the delay  else throw error }
AttemptFails(msg) ==
    /\ deploy.pc = "attempt"
    /\ deploy' = IF isRetryable(msg) /\ deploy.attempt < maxRetries
                 THEN [deploy EXCEPT !.pc = "delay", !.error = msg]
                 ELSE [deploy EXCEPT !.pc = "raised", !.error = msg]
    /\ UNCHANGED << scanVars, probeCall, proxyVars, nft, receipt >>

\* the retry delay has passed: attempt++ and the next iteration
DelayElapsed ==
    /\ deploy.pc = "delay"
    /\ deploy' = deployLoop(deploy, deploy.attempt + 1)
    /\ UNCHANGED << scanVars, probeCall, proxyVars, nft, receipt >>

\* ---------------------------------------------------------- specification
Registry ==
    [c \in ChainIds |->
        CASE c = "pharos-atlantic" -> PHAROS_ATLANTIC_MONTHS
          [] c = "iopn-testnet" -> IOPN_TESTNET_MONTHS
          [] OTHER -> << >>]

\* What an earlier call of this browser can have left in localStorage when
\* the call under study starts: nothing, or the result of one month check
\* (the clock may run on before the call, so every age of the entry occurs).
EarlierEntries ==
    { << >> } \cup
    { setItem(<< >>, getCacheKey(a, k[1], k[2]),
              JSON_stringify([hasActivity |-> v, timestamp |-> 0])) :
        a \in Addresses, v \in BOOLEAN,
        k \in { << "pharos-atlantic", "October" >>, << "iopn-testnet", "September" >> } }

Init ==
    /\ now = 0
    /\ hasWindow = TRUE
    /\ CHAIN_MONTH_CONFIGS = Registry
    /\ localStorage \in EarlierEntries
    /\ cachedLatestBlock = [c \in {"pharos", "iopn"} |-> NoLatest]
    /\ task = [t \in Tasks |-> IdleTask]
    /\ net = {}
    /\ probeCall = NoProbe
    /\ storageFault = "none"
    /\ rateLimit = NoEntries
    /\ proxyLog = NoLog
    /\ nft = Undeployed
    /\ receipt = NoReceipt
    /\ deploy = NotStarted

Next ==
    \/ \E t \in Callers, impl \in Impls, a \in Addresses, c \in ChainIds, m \in Months :
          CallMonth(t, impl, a, c, m)
    \/ \E t \in Callers, impl \in Impls, a \in Addresses, c \in ChainIds :
          CallAll(t, impl, a, c)
    \/ \E t \in Callers : AllLoop(t)
    \/ \E t \in Callers : AllResume(t)
    \/ \E t \in Callers, resp \in TipResponses : TipResponse(t, resp)
    \/ \E t \in Callers, p \in 1..MAX_CONCURRENT_REQUESTS, resp \in TxListResponses :
          ProbeResponse(t, p, resp)
    \/ \E t \in Callers : BatchDone(t)
    \/ \E t \in Callers, a \in Addresses \cup {""}, c \in ChainIds \cup {""} :
          ClearCache(t, a, c)
    \/ Tick

Spec == Init /\ [][Next]_vars

\* The scanner on its own: one month whose block range is drawn from
\* 0..MaxStart x 0..MaxBlock (empty and one-block ranges included), checked
\* once by either implementation on either scanning chain.
ScanMonth == "October"

InitScan ==
    /\ now = 0
    /\ hasWindow = TRUE
    /\ \E s \in 0..MaxStart, e \in 0..MaxBlock :
          CHAIN_MONTH_CONFIGS =
             [c \in ChainIds |->
                IF c \in {"pharos-atlantic", "iopn-testnet"}
                THEN << MonthConfig(ScanMonth, s, e, TRUE) >> ELSE << >>]
    /\ localStorage = << >>
    /\ cachedLatestBlock = [c \in {"pharos", "iopn"} |-> NoLatest]
    /\ task = [t \in Tasks |-> IdleTask]
    /\ net = {}
    /\ probeCall = NoProbe
    /\ storageFault = "none"
    /\ rateLimit = NoEntries
    /\ proxyLog = NoLog
    /\ nft = Undeployed
    /\ receipt = NoReceipt
    /\ deploy = NotStarted

NextScan ==
    \/ \E t \in Callers, impl \in Impls, a \in Addresses,
          c \in {"pharos-atlantic", "iopn-testnet"} : CallMonth(t, impl, a, c, ScanMonth)
    \/ \E t \in Callers, resp \in TipResponses : TipResponse(t, resp)
    \/ \E t \in Callers, p \in 1..MAX_CONCURRENT_REQUESTS, resp \in TxListResponses :
          ProbeResponse(t, p, resp)
    \/ \E t \in Callers : BatchDone(t)

SpecScan == InitScan /\ [][NextScan]_vars

\* The prober on its own: one call with drawn arguments, answered by any of
\* the responses.
InitProbe ==
    /\ now = 0
    /\ hasWindow = TRUE
    /\ CHAIN_MONTH_CONFIGS = Registry
    /\ localStorage = << >>
    /\ cachedLatestBlock = [c \in {"pharos", "iopn"} |-> NoLatest]
    /\ task = [t \in Tasks |-> IdleTask]
    /\ storageFault = "none"
    /\ rateLimit = NoEntries
    /\ proxyLog = NoLog
    /\ nft = Undeployed
    /\ receipt = NoReceipt
    /\ deploy = NotStarted
    /\ net = {}
    /\ \E impl \in Impls, c \in {"pharos-atlantic", "iopn-testnet"}, a \in Addresses,
          s \in 0..MaxStart, e \in 0..MaxStart :
          probeCall = [state |-> "idle", impl |-> impl, chainSlug |-> c, address |-> a,
                       startBlock |-> s, endBlock |-> e,
                       url |-> [proxy |-> FALSE],
                       resp |-> [kind |-> "none", status |-> "", result |-> "absent",
                                 http |-> 0],
                       outcome |-> Resolved(FALSE)]

NextProbe ==
    \/ IssueProbe
    \/ \E resp \in TxListResponses : AnswerProbe(resp)

SpecProbe == InitProbe /\ [][NextProbe]_vars

\* The browser's storage misbehaves: it is denied, its quota is used up, or
\* the entry an earlier session left is no longer the JSON that was written
\* (another script of the origin, a manual edit, a truncated write).
DamagedEntries ==
    { setItem(<< >>, getCacheKey(a, "pharos-atlantic", "October"),
              [text |-> x, obj |-> [hasActivity |-> FALSE, timestamp |-> 0]]) :
        a \in Addresses, x \in {"corrupt", "foreign"} }

InitStorage ==
    /\ now = 0
    /\ hasWindow = TRUE
    /\ CHAIN_MONTH_CONFIGS = Registry
    /\ \/ storageFault \in {"quota", "denied"} /\ localStorage \in EarlierEntries
       \/ storageFault = "none" /\ localStorage \in DamagedEntries
    /\ cachedLatestBlock = [c \in {"pharos", "iopn"} |-> NoLatest]
    /\ task = [t \in Tasks |-> IdleTask]
    /\ net = {}
    /\ probeCall = NoProbe
    /\ rateLimit = NoEntries
    /\ proxyLog = NoLog
    /\ nft = Undeployed
    /\ receipt = NoReceipt
    /\ deploy = NotStarted

SpecStorage == InitStorage /\ [][Next]_vars

\* Every network request that was issued is answered or fails, and the event
\* loop runs every continuation that is ready: the await of the tip request,
\* the Promise.all of a batch, the for loop over the months. Each conjunct is
\* weak fairness of one continuation; for the three that start or end a scan
\* it is written out, []<>~(enabled) \/ []<><<A>>_vars, with the condition
\* under which the continuation is enabled (EnablingConditions).
TipAwaited(t) == task[t].pc = "tip"

BatchSettled(t) ==
    /\ task[t].pc = "batch"
    /\ \A p \in 1..Len(task[t].batch) : task[t].results[p] # "pending"

LoopReady(t) == task[t].pc = "all_loop"

Resolves(t) ==
    /\ WF_vars(\E p \in 1..MAX_CONCURRENT_REQUESTS, resp \in TxListResponses :
                  ProbeResponse(t, p, resp))
    /\ WF_vars(AllResume(t))
    /\ \/ []<>~TipAwaited(t)
       \/ []<><<\E resp \in TipResponses : TipResponse(t, resp)>>_vars
    /\ \/ []<>~BatchSettled(t)
       \/ []<><<BatchDone(t)>>_vars
    /\ \/ []<>~LoopReady(t)
       \/ []<><<AllLoop(t)>>_vars

EnablingConditions ==
    \A t \in Callers :
        /\ TipAwaited(t) <=> ENABLED <<\E resp \in TipResponses : TipResponse(t, resp)>>_vars
        /\ BatchSettled(t) <=> ENABLED <<BatchDone(t)>>_vars
        /\ LoopReady(t) <=> ENABLED <<AllLoop(t)>>_vars

SpecLive == Init /\ [][Next]_vars /\ \A t \in Callers : Resolves(t)

SpecStorageLive == InitStorage /\ [][Next]_vars /\ \A t \in Callers : Resolves(t)

\* The cache's clearing on its own: the storage holds any set of the keys
\* below (entries of two addresses and two chains, one of a month that is not
\* configured for its chain, the pending-mint record, a key of the reserved
\* prefix that is no month entry) and is cleared once, whatever the arguments.
StoredKeys ==
    { getCacheKey(a, c[1], c[2]) :
        a \in {"0xAb", "0xCd"},
        c \in { << "pharos-atlantic", "October" >>, << "iopn-testnet", "September" >>,
                << "pharos-atlantic", "September" >> } }
    \cup { STORAGE_KEY, << "activity", "draft" >> }

InitClear ==
    /\ now = 0
    /\ hasWindow = TRUE
    /\ CHAIN_MONTH_CONFIGS = Registry
    /\ \E keys \in SUBSET StoredKeys :
          localStorage = [k \in keys |->
                            JSON_stringify([hasActivity |-> TRUE, timestamp |-> 0])]
    /\ cachedLatestBlock = [c \in {"pharos", "iopn"} |-> NoLatest]
    /\ task = [t \in Tasks |-> IdleTask]
    /\ net = {}
    /\ probeCall = NoProbe
    /\ storageFault = "none"
    /\ rateLimit = NoEntries
    /\ proxyLog = NoLog
    /\ nft = Undeployed
    /\ receipt = NoReceipt
    /\ deploy = NotStarted

NextClear ==
    \E t \in Callers, a \in {"0xAb", "0xAB", "0xCd", ""}, c \in ChainIds \cup {""} :
        ClearCache(t, a, c)

SpecClear == InitClear /\ [][NextClear]_vars

\* The proxy route on its own: clients send requests as the clock runs.
InitProxy == Init

NextProxy ==
    \/ \E ip \in ClientIps, req \in ProxyRequests, upstream \in {"0", "1", "error"} :
          GET(ip, req, upstream)
    \/ Tick

SpecProxy == InitProxy /\ [][NextProxy]_vars

\* The cache on its own: the k-th call of getCachedResult, setCachedResult or
\* clearActivityCache is made by caller k, with addresses in several
\* spellings, on a working storage that starts empty.
KeyAddresses == {"0xAb", "0xAB", "0xCd"}

KeyMonths ==
    { << "pharos-atlantic", "October" >>, << "pharos-atlantic", "January" >>,
      << "iopn-testnet", "September" >> }

\* getCachedResult(address, chainSlug, month), called
CacheGet(t, address, chainSlug, month) ==
    LET cached == getCachedResult(address, chainSlug, month)
        f == [IdleTask EXCEPT !.api = "get", !.address = address,
                              !.chainSlug = chainSlug, !.month = month]
    IN /\ Free(t)
       /\ task' = [task EXCEPT ![t] =
               IF cached.threw THEN Raise(f, "storage-read")
               ELSE IF cached.hit THEN Return(f, cached.value, "cache")
               ELSE Return(f, FALSE, "miss")]
       /\ UNCHANGED << probeCall, now, hasWindow, CHAIN_MONTH_CONFIGS, storageFault,
                       proxyVars, chainVars, localStorage, cachedLatestBlock, net >>

\* setCachedResult(address, chainSlug, month, hasActivity), called
CacheSet(t, address, chainSlug, month, hasActivity) ==
    LET set == setCachedResult(address, chainSlug, month, hasActivity)
        f == [IdleTask EXCEPT !.api = "set", !.address = address,
                              !.chainSlug = chainSlug, !.month = month]
    IN /\ Free(t)
       /\ task' = [task EXCEPT ![t] =
               IF set.threw THEN Raise(f, "storage-write")
               ELSE Return(f, hasActivity, "set")]
       /\ localStorage' = set.store
       /\ UNCHANGED << probeCall, now, hasWindow, CHAIN_MONTH_CONFIGS, storageFault,
                       proxyVars, chainVars, cachedLatestBlock, net >>

InitKeys ==
    /\ now = 0
    /\ hasWindow = TRUE
    /\ CHAIN_MONTH_CONFIGS = Registry
    /\ localStorage = << >>
    /\ cachedLatestBlock = [c \in {"pharos", "iopn"} |-> NoLatest]
    /\ task = [t \in Tasks |-> IdleTask]
    /\ net = {}
    /\ probeCall = NoProbe
    /\ storageFault = "none"
    /\ rateLimit = NoEntries
    /\ proxyLog = NoLog
    /\ nft = Undeployed
    /\ receipt = NoReceipt
    /\ deploy = NotStarted

NextKeys ==
    \E t \in Tasks :
        /\ \A j \in Tasks : j < t => ~Free(j)
        /\ \/ \E a \in KeyAddresses, k \in KeyMonths : CacheGet(t, a, k[1], k[2])
           \/ \E a \in KeyAddresses, k \in KeyMonths, v \in BOOLEAN :
                 CacheSet(t, a, k[1], k[2], v)
           \/ \E a \in KeyAddresses, k \in KeyMonths : ClearCache(t, a, k[1])

SpecKeys == InitKeys /\ [][NextKeys]_vars

\* Two callers check the same month of the same wallet, in any interleaving
\* of their steps, on a working storage that starts empty.
RaceMonth == << "pharos-atlantic", "October" >>

InitRace == InitKeys

NextRace ==
    \/ \E t \in Tasks, impl \in Impls, a \in Addresses :
          CallMonth(t, impl, a, RaceMonth[1], RaceMonth[2])
    \/ \E t \in Tasks, resp \in TipResponses : TipResponse(t, resp)
    \/ \E t \in Tasks, p \in 1..MAX_CONCURRENT_REQUESTS, resp \in TxListResponses :
          ProbeResponse(t, p, resp)
    \/ \E t \in Tasks : BatchDone(t)

SpecRace == InitRace /\ [][NextRace]_vars

\* The minting contract on its own: deployed by "deployer" with any supply
\* and default URI, then sent transactions by every account.
InitNFT ==
    /\ now = 0
    /\ hasWindow = TRUE
    /\ CHAIN_MONTH_CONFIGS = Registry
    /\ localStorage = << >>
    /\ cachedLatestBlock = [c \in {"pharos", "iopn"} |-> NoLatest]
    /\ task = [t \in Tasks |-> IdleTask]
    /\ net = {}
    /\ probeCall = NoProbe
    /\ storageFault = "none"
    /\ rateLimit = NoEntries
    /\ proxyLog = NoLog
    /\ \E n \in 0..MaxSupplyBound, uri \in URIs : nft = constructor("deployer", n, uri)
    /\ receipt = NoReceipt
    /\ deploy = NotStarted

NextNFT ==
    \/ \E a \in Accounts : Mint(a)
    \/ \E a \in Accounts, n \in 0..MaxSupplyBound : SetMaxSupply(a, n)
    \/ \E a \in Accounts, uri \in URIs : SetDefaultTokenURI(a, uri)
    \/ \E a \in Accounts, k \in 0..MaxSupplyBound, uri \in URIs : UpdateTokenURI(a, k, uri)
    \/ \E a \in Accounts : Pause(a)
    \/ \E a \in Accounts : Unpause(a)
    \/ \E a, to \in Accounts, k \in 0..MaxSupplyBound : TransferFrom(a, a, to, k)
    \/ \E a, to \in Accounts : TransferOwnership(a, to)

SpecNFT == InitNFT /\ [][NextNFT]_vars

\* The deployment script on its own: one run of deployMonth for a month of
\* the script's table or for a name that is not in it.
InitDeploy ==
    /\ now = 0
    /\ hasWindow = TRUE
    /\ CHAIN_MONTH_CONFIGS = Registry
    /\ localStorage = << >>
    /\ cachedLatestBlock = [c \in {"pharos", "iopn"} |-> NoLatest]
    /\ task = [t \in Tasks |-> IdleTask]
    /\ net = {}
    /\ probeCall = NoProbe
    /\ storageFault = "none"
    /\ rateLimit = NoEntries
    /\ proxyLog = NoLog
    /\ nft = Undeployed
    /\ receipt = NoReceipt
    /\ deploy = NotStarted

NextDeploy ==
    \/ \E month \in DeployMonths : DeployMonth(month)
    \/ \E address \in DeployedAddresses : AttemptSucceeds(address)
    \/ \E msg \in ErrorMessages : AttemptFails(msg)
    \/ DelayElapsed

SpecDeploy == InitDeploy /\ [][NextDeploy]_vars

\* ------------------------------------------------------------------ claims
Done(f) == f.pc \in {"returned", "all_resume"}

\* the month check has generated its chunks
Generated(f) == f.pc = "batch" \/ f.via = "scan"

Blocks(chunks) == UNION { chunks[k].start .. chunks[k].end : k \in 1..Len(chunks) }

ChunksCover(f) ==
    /\ \A k \in 1..Len(f.chunks) :
          /\ f.chunks[k].start <= f.chunks[k].end
          /\ f.chunks[k].end - f.chunks[k].start + 1 <= chunkSizeOf(f.impl, f.chainSlug)
    /\ \A k \in 1..(Len(f.chunks) - 1) : f.chunks[k + 1].start = f.chunks[k].end + 1
    /\ Blocks(f.chunks) = f.startBlock .. f.endBlock

\* C1: for every range with startBlock <= endBlock the generated chunks are
\* consecutive, disjoint, at most chunkSize blocks long, and together they
\* are exactly the blocks startBlock..endBlock, endBlock included.
C1_ChunksCoverRange ==
    \A t \in Tasks :
        (Generated(task[t]) /\ task[t].startBlock <= task[t].endBlock)
            => ChunksCover(task[t])

\* C2: once a chunk probe has returned true no later batch is issued, and the
\* scan returns true.
C2_EarlyExit ==
    \A t \in Tasks :
        LET f == task[t] IN
        f.hits # {} =>
            /\ f.batches = f.hitBatch
            /\ \A k \in 1..Len(f.probes) :
                  f.probes[k] <= f.i + Len(f.batch)
            /\ Done(f) => (f.result = TRUE /\ f.via = "scan")

\* a scan returned true after its first batch and left chunks unprobed
C2_Witness ==
    \E t \in Tasks :
        LET f == task[t] IN
        /\ f.pc = "returned" /\ f.result = TRUE /\ f.via = "scan" /\ f.hitBatch = 1
        /\ \E c \in 1..Len(f.chunks) : \A k \in 1..Len(f.probes) : f.probes[k] # c

\* C3: a scan whose probes all returned false issued exactly
\* ceil((endBlock - startBlock) / chunkSize) probes and returned false.
C3_AllFalseProbeCount ==
    \A t \in Tasks :
        LET f == task[t] IN
        (Done(f) /\ f.via = "scan" /\ f.hits = {} /\ f.startBlock <= f.endBlock)
            => /\ f.result = FALSE
               /\ Len(f.probes) = CeilDiv(f.endBlock - f.startBlock,
                                          chunkSizeOf(f.impl, f.chainSlug))

\* the txlist requests of caller t that are in flight
Outstanding(t) == { r \in net : r.task = t /\ r.kind = "txlist" }

\* C4: at most maxConcurrency probes of a scan are outstanding at any moment:
\* 2 on the proxy chain iopn-testnet, 5 on every other chain.
C4_BoundedConcurrency ==
    \A t \in Tasks :
        Cardinality(Outstanding(t)) <=
            (IF task[t].chainSlug = "iopn-testnet" THEN 2 ELSE 5)

\* C4, second half: every outstanding probe belongs to the batch issued last.
C4_BatchesInSequence ==
    \A t \in Tasks : \A r \in Outstanding(t) :
        /\ task[t].pc = "batch"
        /\ r.pos \in 1..Len(task[t].batch)
        /\ task[t].batch[r.pos] = r.chunk

\* C6: a scan whose effective range is empty (startBlock > endBlock, also
\* after the clamp to the chain tip) issues no txlist probe and returns false.
C6_EmptyRangeNoProbes ==
    \A t \in Tasks :
        LET f == task[t] IN
        (f.pc # "idle" /\ f.startBlock > f.endBlock)
            => /\ f.probes = << >>
               /\ Outstanding(t) = {}
               /\ Done(f) => f.result = FALSE

\* the clamp to the tip emptied a range that is not empty as configured
C6_Witness ==
    \E t \in Tasks :
        LET f == task[t]
            configs == getMonthConfigsForChain(f.chainSlug)
        IN /\ f.pc = "returned" /\ f.via = "scan" /\ f.result = FALSE
           /\ f.latestBlock.kind = "num"
           /\ f.startBlock > f.endBlock
           /\ \E k \in 1..Len(configs) :
                 configs[k].name = f.month /\ configs[k].startBlock <= configs[k].endBlock

\* C5: during checkAllMonthsActivity every request in flight belongs to the
\* month being checked, and that check started only after every earlier
\* month had returned and been reported.
C5_OneMonthInFlight ==
    \A t \in Tasks :
        LET f == task[t] IN
        f.api = "all" =>
            /\ \A r \in net : r.task = t =>
                  (r.month = f.month /\ f.pc \in {"tip", "batch"})
            /\ f.pc \in {"tip", "batch"} => Len(f.completed) = f.mi - 1

\* the second month of a checkAllMonthsActivity call has probes in flight
C5_Witness ==
    \E t \in Tasks :
        task[t].api = "all" /\ task[t].mi >= 2 /\ Outstanding(t) # {}

\* the stored entry of (address, chain, month) is younger than 1 hour
FreshEntry(address, chainSlug, month) ==
    LET key == << "activity", chainSlug, toLowerCase(address), month >> IN
    /\ key \in DOMAIN localStorage
    /\ localStorage[key].text = "json"
    /\ now - localStorage[key].obj.timestamp < CACHE_TTL

\* this step starts a month check of caller t (f before, g after)
StartsCheck(f, g) ==
    \/ f.pc = "idle" /\ g.api = "month"
    \/ f.pc = "all_loop" /\ g.pc \in {"tip", "batch", "all_resume", "raised"}

\* C7: a month check that finds an entry younger than 1 hour returns the
\* stored boolean at once: no request, no onProgress call, no write.
C7_CacheHitNoEffects ==
    [][ \A t \in Tasks :
          LET f == task[t]
              g == task'[t]
              key == << "activity", g.chainSlug, toLowerCase(g.address), g.month >>
          IN (StartsCheck(f, g) /\ FreshEntry(g.address, g.chainSlug, g.month))
                => /\ Done(g)
                   /\ g.result = localStorage[key].obj.hasActivity
                   /\ net' = net
                   /\ localStorage' = localStorage
                   /\ cachedLatestBlock' = cachedLatestBlock
                   /\ g.progress = << >> /\ g.probes = << >> /\ g.tipRequests = 0
      ]_vars

\* a direct call was answered true from the cache
C7_Witness ==
    \E t \in Tasks :
        LET f == task[t] IN
        /\ f.pc = "returned" /\ f.api = "month" /\ f.result = TRUE
        /\ f.probes = << >> /\ f.tipRequests = 0
        /\ FreshEntry(f.address, f.chainSlug, f.month)

\* C8: what a month check wrote is read back while it is younger than 1 hour
\* and is a miss from 1 hour on; a key with no entry is a miss.
C8_CacheRoundTrip ==
    /\ \A t \in Tasks :
          LET f == task[t]
              got == getCachedResult(f.address, f.chainSlug, f.month)
          IN (f.via = "scan" /\ f.pc \in {"returned", "all_resume", "all_loop"})
                => IF now - f.doneAt < CACHE_TTL
                   THEN got.hit /\ got.value = f.result
                   ELSE ~got.hit
    /\ \A a \in Addresses, c \in ChainIds, m \in Months :
          << "activity", c, toLowerCase(a), m >> \notin DOMAIN localStorage
              => ~getCachedResult(a, c, m).hit

\* a stored true has reached the age of 1 hour
C8_Witness ==
    \E t \in Tasks :
        LET f == task[t] IN
        /\ f.pc = "returned" /\ f.via = "scan" /\ f.result = TRUE
        /\ now - f.doneAt >= CACHE_TTL

\* this step is the return of a month check of caller t to its caller
MonthReturns(f, g) ==
    /\ f.pc \in {"idle", "tip", "batch", "all_loop"}
    /\ \/ g.api = "month" /\ g.pc = "returned"
       \/ g.api = "all" /\ g.pc = "all_resume"

\* C9: a month check that returns r without a cache hit has stored
\* {hasActivity: r, timestamp: now} under its key when it returns.
C9_MissWritesCache ==
    [][ \A t \in Tasks :
          LET f == task[t]
              g == task'[t]
              key == << "activity", g.chainSlug, toLowerCase(g.address), g.month >>
          IN (MonthReturns(f, g) /\ ~FreshEntry(g.address, g.chainSlug, g.month))
                => /\ key \in DOMAIN localStorage'
                   /\ localStorage'[key].obj.hasActivity = g.result
                   /\ localStorage'[key].obj.timestamp = now'
                   /\ now' - localStorage'[key].obj.timestamp < CACHE_TTL
      ]_vars

\* a scan that found nothing returned false and left false in the cache
C9_Witness ==
    \E t \in Tasks :
        LET f == task[t]
            key == << "activity", f.chainSlug, toLowerCase(f.address), f.month >>
        IN /\ f.pc = "returned" /\ f.api = "month" /\ f.via = "scan" /\ f.result = FALSE
           /\ Len(f.probes) > 0
           /\ key \in DOMAIN localStorage
           /\ localStorage[key].obj = [hasActivity |-> FALSE, timestamp |-> f.doneAt]

\* C10: a probe resolves to true exactly when the answer is JSON with status
\* '1' and a non-empty result list; every other answer, a transport failure
\* and an unparseable body resolve to false; the probe never rejects.
C10_ProbeOutcome ==
    probeCall.state = "settled" =>
        /\ ~probeCall.outcome.raised
        /\ probeCall.outcome.value <=>
              (/\ probeCall.resp.kind = "json"
               /\ probeCall.resp.status = "1"
               /\ probeCall.resp.result = "nonempty")

\* a transport failure was absorbed into false
C10_Witness ==
    /\ probeCall.state = "settled"
    /\ probeCall.resp.kind = "neterr"
    /\ probeCall.outcome = Resolved(FALSE)

\* C11: a failure of the storage layer (getItem, JSON.parse or setItem
\* throwing) never leaves the cache: no month check, and no
\* checkAllMonthsActivity call around it, ends with a storage exception.
C11_StorageFailuresAbsorbed ==
    \A t \in Tasks :
        task[t].pc = "raised" => task[t].via \notin {"storage-read", "storage-write"}

\* the months the registry configures for a chain
ConfiguredMonths(chainSlug) ==
    LET configs == getMonthConfigsForChain(chainSlug) IN
    { configs[k].name : k \in 1..Len(configs) }

\* C12: checkActivityForMonth called with a month the chain does not
\* configure (an unconfigured chain configures none) raises, with no request
\* and no cache entry; checkAllMonthsActivity called with a chain that has no
\* configuration does not return a result either.
C12_ConfigErrorsSurface ==
    \A t \in Tasks :
        LET f == task[t] IN
        /\ (f.api = "month" /\ f.month \notin ConfiguredMonths(f.chainSlug))
              => /\ f.pc = "raised" /\ f.via = "invalid-month"
                 /\ f.probes = << >> /\ f.tipRequests = 0 /\ net = {}
                 /\ << "activity", f.chainSlug, toLowerCase(f.address), f.month >>
                       \notin DOMAIN localStorage
        /\ (f.api = "all" /\ ConfiguredMonths(f.chainSlug) = {})
              => f.pc # "returned"

\* the configuration of the month a checkAllMonthsActivity call is at
ConfigOf(chainSlug, month) ==
    LET configs == getMonthConfigsForChain(chainSlug) IN
    configs[CHOOSE k \in 1..Len(configs) : configs[k].name = month]

\* C13: checkAllMonthsActivity never starts a month check (no request, no
\* cache access) for a configured month whose contract address is unset, and
\* reports false for it.
C13_UnsetMonthsSkipped ==
    \A t \in Tasks :
        LET f == task[t] IN
        f.api = "all" =>
            /\ f.pc \in {"tip", "batch", "all_resume"}
                  => ConfigOf(f.chainSlug, f.month).deployed
            /\ \A r \in net : r.task = t => ConfigOf(f.chainSlug, r.month).deployed
            /\ \A k \in 1..Len(f.completed) :
                  ~ConfigOf(f.chainSlug, f.completed[k][1]).deployed
                      => f.completed[k][2] = FALSE

\* this step is a call clearActivityCache(g.address, g.chainSlug) of caller t
Clears(f, g) == f.pc = "idle" /\ g.api = "clear" /\ g.pc = "returned"

\* key is the entry of (address, chain) for a month configured for the chain
EntryOfPair(key, address, chainSlug) ==
    /\ Len(key) = 4 /\ key[1] = "activity" /\ key[2] = chainSlug
    /\ key[3] = toLowerCase(address)
    /\ key[4] \in ConfiguredMonths(chainSlug)

\* C14: clearActivityCache(address, chain) removes the entries of that pair
\* for the months configured for the chain and nothing else: every other
\* key keeps its value, and no key appears.
C14_ClearPair ==
    [][ \A t \in Tasks :
          LET g == task'[t] IN
          (Clears(task[t], g) /\ g.address # "" /\ g.chainSlug # "")
             => /\ DOMAIN localStorage' =
                      { k \in DOMAIN localStorage : ~EntryOfPair(k, g.address, g.chainSlug) }
                /\ \A k \in DOMAIN localStorage' : localStorage'[k] = localStorage[k]
      ]_vars

\* an entry of the pair was removed while an entry of the other address on
\* the same chain, one of the same address on the other chain and the
\* pending-mint record stayed
C14_Witness ==
    \E t \in Tasks :
        LET f == task[t] IN
        /\ f.api = "clear" /\ f.pc = "returned"
        /\ f.address = "0xAb" /\ f.chainSlug = "pharos-atlantic"
        /\ << "activity", "pharos-atlantic", "0xab", "October" >> \in f.removed
        /\ { << "activity", "pharos-atlantic", "0xcd", "October" >>,
             << "activity", "iopn-testnet", "0xab", "September" >>,
             STORAGE_KEY } \subseteq DOMAIN localStorage

\* C15: clearActivityCache() removes every key that starts with 'activity_'
\* and leaves every other key, the pending-mint record among them, with its
\* value.
C15_ClearAll ==
    [][ \A t \in Tasks :
          LET g == task'[t] IN
          (Clears(task[t], g) /\ g.address = "" /\ g.chainSlug = "")
             => /\ DOMAIN localStorage' =
                      { k \in DOMAIN localStorage : ~(Len(k) >= 2 /\ k[1] = "activity") }
                /\ \A k \in DOMAIN localStorage' : localStorage'[k] = localStorage[k]
                /\ STORAGE_KEY \in DOMAIN localStorage => STORAGE_KEY \in DOMAIN localStorage'
      ]_vars

\* the global clear removed entries of both addresses and left the
\* pending-mint record
C15_Witness ==
    \E t \in Tasks :
        LET f == task[t] IN
        /\ f.api = "clear" /\ f.pc = "returned" /\ f.address = "" /\ f.chainSlug = ""
        /\ << "activity", "pharos-atlantic", "0xab", "October" >> \in f.removed
        /\ << "activity", "iopn-testnet", "0xcd", "September" >> \in f.removed
        /\ << "activity", "draft" >> \in f.removed
        /\ STORAGE_KEY \in DOMAIN localStorage

\* the scan of checkActivity (iopn.ts, pharos.ts) has its tip answer
Resolving(f) == f.impl = "modular" /\ f.pc \in {"batch", "returned", "all_resume"}
                /\ f.via \in {"none", "scan"}

\* C16: when tip resolution succeeded with tip T (answered now or cached),
\* the scan's endBlock is min(configured endBlock, T) and every chunk lies in
\* startBlock..T.
C16_TipClamp ==
    \A t \in Tasks :
        LET f == task[t]
            T == f.latestBlock.block
        IN (Resolving(f) /\ f.latestBlock.kind = "num")
              => /\ f.endBlock = Min(ConfigOf(f.chainSlug, f.month).endBlock, T)
                 /\ \A k \in 1..Len(f.chunks) :
                       f.startBlock <= f.chunks[k].start /\ f.chunks[k].end <= T

\* C17: when tip resolution failed (no answer, a body that is not JSON, a
\* status other than '1', no block height, a height that is no number) the
\* scan does not raise and its chunks are those of the configured range.
C17_TipFailureFallsBack ==
    \A t \in Tasks :
        LET f == task[t]
            config == ConfigOf(f.chainSlug, f.month)
        IN (f.impl = "modular" /\ f.tipRequests = 1 /\ f.pc # "tip"
            /\ f.latestBlock.kind \in {"null", "nan"})
              => /\ f.pc # "raised"
                 /\ f.endBlock = config.endBlock
                 /\ config.startBlock <= config.endBlock =>
                       /\ Len(f.chunks) = CeilDiv(config.endBlock - config.startBlock,
                                                  chunkSizeOf("modular", f.chainSlug))
                       /\ \A k \in 1..Len(f.chunks) :
                             /\ f.chunks[k].start = config.startBlock
                                   + (k - 1) * chunkSizeOf("modular", f.chainSlug)
                             /\ f.chunks[k].end =
                                   Min(f.chunks[k].start
                                         + chunkSizeOf("modular", f.chainSlug) - 1,
                                       config.endBlock)
                 /\ config.startBlock > config.endBlock => f.chunks = << >>

\* a scan went on over the whole configured range after a transport error
\* of its tip request
C17_Witness ==
    \E t \in Tasks :
        LET f == task[t] IN
        /\ f.impl = "modular" /\ f.pc = "returned" /\ f.via = "scan"
        /\ f.tipRequests = 1 /\ f.latestBlock.kind = "null"
        /\ Len(f.chunks) >= 2
        /\ f.chunks[Len(f.chunks)].end = ConfigOf(f.chainSlug, f.month).endBlock

\* this step starts a scan of checkActivity (iopn.ts / pharos.ts) for caller t
StartsScan(f, g) ==
    /\ StartsCheck(f, g) /\ g.impl = "modular" /\ g.api \in {"month", "all"}
    /\ \/ g.pc \in {"tip", "batch"}
       \/ g.pc \in {"returned", "all_resume"} /\ g.via = "scan"

\* C18: a scan that starts less than 5 minutes after the cached resolution
\* uses the cached tip and sends no tip request; one that starts 5 minutes
\* after it or later (or with nothing cached) sends a tip request, and a
\* successful answer replaces the cached (block, timestamp) pair.
C18_LatestBlockCache ==
    [][ \A t \in Tasks :
          LET f == task[t]
              g == task'[t]
              checker == getChainChecker(g.chainSlug)
              c == cachedLatestBlock[checker]
              req == Request(t, "tip", g.month, 0, 0)
          IN /\ StartsScan(f, g) =>
                  IF c.set /\ now - c.timestamp < LATEST_BLOCK_TTL
                  THEN /\ g.tipRequests = 0 /\ req \notin net'
                       /\ g.latestBlock = [kind |-> c.kind, block |-> c.block]
                       /\ cachedLatestBlock' = cachedLatestBlock
                  ELSE g.pc = "tip" /\ g.tipRequests = 1 /\ req \in net'
             /\ (f.pc = "tip" /\ g.pc # "tip" /\ g.latestBlock.kind = "num") =>
                  cachedLatestBlock'[checker] =
                     [set |-> TRUE, kind |-> "num", block |-> g.latestBlock.block,
                      timestamp |-> now]
      ]_vars

\* the second month of a checkAllMonthsActivity call scans with the tip its
\* first month resolved, without a request of its own
C18_Witness ==
    \E t \in Tasks :
        LET f == task[t] IN
        /\ f.api = "all" /\ f.impl = "modular" /\ f.mi = 2 /\ f.pc = "batch"
        /\ f.tipRequests = 0 /\ f.latestBlock.kind = "num"
        /\ cachedLatestBlock[getChainChecker(f.chainSlug)].set

\* C20: a probe the proxy answered with its rate-limit response counts as
\* negative and is not sent again: the answer takes the request off the
\* network and adds none; a month whose probes were all rate-limited returns
\* false, stores false, and is answered false from the cache while the entry
\* is younger than 1 hour.
C20_RateLimitedIsNegative ==
    /\ [][ \A t \in Tasks :
             LET f == task[t]
                 g == task'[t]
             IN (f.pc = "batch" /\ g.onlyLimited /\ net' \subseteq net /\ net' # net)
                   => /\ g.pc = "batch" /\ g.probes = f.probes
                      /\ Cardinality(net') = Cardinality(net) - 1
                      /\ \E p \in 1..Len(f.batch) :
                            /\ f.results[p] = "pending" /\ g.results[p] = "miss"
                            /\ \A q \in 1..Len(f.batch) \ {p} : g.results[q] = f.results[q]
         ]_vars
    /\ [](\A t \in Tasks :
             LET f == task[t]
                 got == getCachedResult(f.address, f.chainSlug, f.month)
                 key == << "activity", f.chainSlug, toLowerCase(f.address), f.month >>
             IN (f.pc \in {"returned", "all_resume"} /\ f.via = "scan"
                 /\ f.onlyLimited /\ Len(f.probes) > 0)
                   => /\ f.result = FALSE
                      /\ key \in DOMAIN localStorage
                      /\ localStorage[key].obj.hasActivity = FALSE
                      /\ now - f.doneAt < CACHE_TTL => (got.hit /\ got.value = FALSE))

\* a month on the proxy chain whose probes were all rate-limited was cached
\* as false and the entry is still served
C20_Witness ==
    \E t \in Tasks :
        LET f == task[t] IN
        /\ f.pc = "returned" /\ f.api = "month" /\ f.via = "scan"
        /\ f.chainSlug = "iopn-testnet" /\ f.onlyLimited /\ Len(f.probes) >= 2
        /\ now > f.doneAt
        /\ getCachedResult(f.address, f.chainSlug, f.month)
              = [hit |-> TRUE, value |-> FALSE, threw |-> FALSE]

ProbedChunks(f) ==
    LET n == IF f.pc = "batch" THEN Len(f.probes) - Len(f.batch) ELSE Len(f.probes) IN
    { f.probes[k] : k \in 1..n }

\* C21: onProgress was called once per completed batch, each time with
\* totalChunks as total, the last call with the number of chunks probed so
\* far; the positive batch is reported before true is returned, and a
\* fully negative scan ends on (totalChunks, totalChunks).
C21_ProgressPerBatch ==
    \A t \in Tasks :
        LET f == task[t]
            completed == IF f.pc = "batch" THEN f.batches - 1 ELSE f.batches
            n == Len(f.progress)
        IN (f.onProgress /\ (f.pc = "batch" \/ (f.pc = "returned" /\ f.via = "scan")))
              => /\ n = completed
                 /\ \A k \in 1..n : f.progress[k][2] = f.totalChunks
                 /\ n > 0 => f.progress[n][1] = Cardinality(ProbedChunks(f))
                 /\ (f.pc = "returned" /\ ~f.result /\ f.totalChunks > 0)
                       => (n > 0 /\ f.progress[n] = << f.totalChunks, f.totalChunks >>)

\* C22: checkAllMonthsActivity reports the configured months in registry
\* order, one callback per month, each after the month's result is known and
\* before the next month starts, and returns for each configured month the
\* value it reported.
C22_MonthsInOrder ==
    \A t \in Tasks :
        LET f == task[t]
            configs == getMonthConfigsForChain(f.chainSlug)
        IN f.api = "all" =>
              /\ Len(f.completed) <= Len(configs)
              /\ \A k \in 1..Len(f.completed) : f.completed[k][1] = configs[k].name
              /\ f.pc \in {"tip", "batch", "all_resume"} =>
                    (Len(f.completed) = f.mi - 1 /\ f.month = configs[f.mi].name)
              /\ f.pc = "returned" =>
                    /\ Len(f.completed) = Len(configs)
                    /\ \A k \in 1..Len(configs) :
                          f.allResults[configs[k].name] = f.completed[k][2]

\* a call has reported a month with activity and one without, and returned
C22_Witness ==
    \E t \in Tasks :
        LET f == task[t] IN
        /\ f.api = "all" /\ f.pc = "returned" /\ Len(f.completed) >= 2
        /\ f.completed[1][2] = TRUE /\ f.completed[2][2] = FALSE
        /\ f.allResults[f.completed[1][1]] = TRUE

\* the block ranges of the registry as contracts.ts gives them
Contiguous(ranges) ==
    /\ \A k \in 1..Len(ranges) : ranges[k].startBlock <= ranges[k].endBlock
    /\ \A k \in 1..(Len(ranges) - 1) : ranges[k].endBlock + 1 = ranges[k + 1].startBlock

\* C23: on every chain each configured month has startBlock <= endBlock and
\* starts one block after the month before it ends (the registry as the
\* scans see it, and the block numbers of contracts.ts themselves).
C23_RegistryContiguous ==
    /\ \A c \in DOMAIN CHAIN_MONTH_CONFIGS : Contiguous(CHAIN_MONTH_CONFIGS[c])
    /\ Contiguous(PHAROS_ATLANTIC_BLOCKS)
    /\ Contiguous(IOPN_TESTNET_BLOCKS)

\* C24: within one scan no chunk is probed twice, and every probe is one
\* transaction-list request: the requests in flight are those of the probes
\* of the current batch that have no answer yet, one each.
C24_NoRetries ==
    \A t \in Tasks :
        LET f == task[t] IN
        /\ \A j, k \in 1..Len(f.probes) : f.probes[j] = f.probes[k] => j = k
        /\ f.pc = "batch" =>
              /\ Cardinality(Outstanding(t)) =
                    Cardinality({ p \in 1..Len(f.batch) : f.results[p] = "pending" })
              /\ \A p \in 1..Len(f.batch) :
                    f.results[p] # "pending"
                       => Request(t, "txlist", f.month, f.batch[p], p) \notin net
        /\ f.pc # "batch" => Outstanding(t) = {}

\* two addresses name the same wallet when they differ only in letter case
SameWallet(a, b) ==
    \E w \in { {"0xAb", "0xAB", "0xab"}, {"0xCd", "0xCD", "0xcd"} } : a \in w /\ b \in w

SameTriple(f, g) ==
    f.chainSlug = g.chainSlug /\ SameWallet(f.address, g.address) /\ f.month = g.month

\* the calls whose entry is in the cache after the first n calls: a set
\* replaces the entry of its triple, a clear drops the wallet's entries on
\* the chain
RECURSIVE LiveSets(_)
LiveSets(n) ==
    IF n = 0 THEN {}
    ELSE LET f == task[n]
             before == LiveSets(n - 1)
         IN IF f.pc # "returned" THEN before
            ELSE IF f.api = "set"
            THEN { j \in before : ~SameTriple(task[j], f) } \cup {n}
            ELSE IF f.api = "clear"
            THEN { j \in before : ~(task[j].chainSlug = f.chainSlug
                                      /\ SameWallet(task[j].address, f.address)) }
            ELSE before

\* C25: an entry is addressed by (chain, wallet, month), the wallet in any
\* letter case: a get hits exactly when a set of the same triple is live and
\* returns its value, a clear removes exactly the wallet's entries on the
\* chain, and the entries of different triples have different keys.
C25_KeysByTriple ==
    /\ \A t \in Tasks :
           LET f == task[t]
               same == { j \in LiveSets(t - 1) : SameTriple(task[j], f) }
           IN (f.api = "get" /\ f.pc # "idle")
                 => /\ f.pc = "returned"
                    /\ (f.via = "cache") <=> (same # {})
                    /\ \A j \in same : f.result = task[j].result
    /\ Cardinality(DOMAIN localStorage) = Cardinality(LiveSets(Cardinality(Tasks)))

\* a result stored under one spelling was read under another, and one was
\* cleared under another
C25_Witness ==
    /\ task[1].api = "set" /\ task[1].address = "0xAb" /\ task[1].result
    /\ \/ task[2].api = "get" /\ task[2].address = "0xAB" /\ task[2].via = "cache"
          /\ task[2].result
       \/ task[2].api = "clear" /\ task[2].address = "0xAB" /\ task[2].pc = "returned"
          /\ localStorage = << >>

\* the number of tokens a wallet has minted (its NFTMinted events)
mintedBy(s, w) == Cardinality({ k \in 1..Len(s.logs) : s.logs[k].minter = w })

\* the step is a call of mint by w
MintBy(w) == receipt'.fn = "mint" /\ receipt'.sender = w

\* C26 as stated: hasMinted[w] is false until w's first successful mint and
\* true ever after, every later mint by w reverts with 'Already minted' and
\* changes nothing, a mint touches no other wallet's flag, and no wallet
\* owns more than one token.
C26_OneMintPerWallet ==
    /\ [](\A w \in Accounts :
             /\ nft.hasMinted[w] <=> mintedBy(nft, w) > 0
             /\ balanceOf(nft, w) <= 1)
    /\ [][\A w \in Accounts :
             /\ nft.hasMinted[w] => nft'.hasMinted[w]
             /\ (~nft.hasMinted[w] /\ nft'.hasMinted[w])
                    => (MintBy(w) /\ receipt'.reason = "ok")
             /\ MintBy(w) => \A v \in Accounts \ {w} : nft'.hasMinted[v] = nft.hasMinted[v]
             /\ (MintBy(w) /\ nft.hasMinted[w])
                    => (receipt'.reason = "Already minted" /\ nft' = nft)]_vars

\* C26, amended: hasMinted[w] is false until w's first successful mint and
\* true ever after, every later mint by w reverts and changes nothing (with
\* 'Already minted' unless the contract is paused, then with EnforcedPause),
\* a mint touches no other wallet's flag, and no wallet has minted more than
\* one token.
C26_OneMintPerWalletAmended ==
    /\ [](\A w \in Accounts :
             /\ nft.hasMinted[w] <=> mintedBy(nft, w) > 0
             /\ mintedBy(nft, w) <= 1)
    /\ [][\A w \in Accounts :
             /\ nft.hasMinted[w] => nft'.hasMinted[w]
             /\ (~nft.hasMinted[w] /\ nft'.hasMinted[w])
                    => (MintBy(w) /\ receipt'.reason = "ok")
             /\ MintBy(w) => \A v \in Accounts \ {w} : nft'.hasMinted[v] = nft.hasMinted[v]
             /\ (MintBy(w) /\ nft.hasMinted[w])
                    => /\ receipt'.reason = IF nft.paused THEN "EnforcedPause"
                                             ELSE "Already minted"
                       /\ nft' = nft]_vars

\* two wallets have minted and one of them has tried again
C26_Witness ==
    /\ receipt.fn = "mint" /\ receipt.reason = "Already minted"
    /\ nft.hasMinted[receipt.sender] /\ Len(nft.logs) = 2
    /\ \A w \in Accounts : mintedBy(nft, w) <= 1

\* C27 as stated: totalSupply <= maxSupply always; a mint at
\* totalSupply = maxSupply reverts with 'Max supply reached', setMaxSupply(n)
\* with n < totalSupply reverts with 'Cannot set below minted amount', and
\* neither changes the state.
C27_SupplyInvariant ==
    /\ [](totalSupply(nft) <= nft.maxSupply)
    /\ [][
           /\ (receipt'.fn = "mint" /\ totalSupply(nft) = nft.maxSupply)
                => (receipt'.reason = "Max supply reached" /\ nft' = nft)
           /\ (receipt'.fn = "setMaxSupply" /\ receipt'.arg < totalSupply(nft))
                => (receipt'.reason = "Cannot set below minted amount" /\ nft' = nft)]_vars

\* C27, amended: totalSupply <= maxSupply always; at totalSupply = maxSupply
\* a mint reverts, with 'Max supply reached' when the contract is not paused
\* and the caller has not minted; setMaxSupply(n) with n < totalSupply
\* reverts, with 'Cannot set below minted amount' when the owner calls; and
\* neither changes the state.
C27_SupplyInvariantAmended ==
    /\ [](totalSupply(nft) <= nft.maxSupply)
    /\ [][
           /\ (receipt'.fn = "mint" /\ totalSupply(nft) = nft.maxSupply)
                => /\ receipt'.reason # "ok" /\ nft' = nft
                   /\ (~nft.paused /\ ~nft.hasMinted[receipt'.sender])
                         => receipt'.reason = "Max supply reached"
           /\ (receipt'.fn = "setMaxSupply" /\ receipt'.arg < totalSupply(nft))
                => /\ receipt'.reason # "ok" /\ nft' = nft
                   /\ receipt'.sender = nft.owner
                         => receipt'.reason = "Cannot set below minted amount"]_vars

\* the supply is used up and a wallet that has not minted was turned away,
\* or the owner tried to set the supply below it
C27_Witness ==
    /\ totalSupply(nft) = nft.maxSupply /\ totalSupply(nft) > 0
    /\ \/ receipt.fn = "mint" /\ receipt.reason = "Max supply reached"
          /\ ~nft.hasMinted[receipt.sender]
       \/ receipt.fn = "setMaxSupply" /\ receipt.arg < totalSupply(nft)
          /\ receipt.reason = "Cannot set below minted amount"

\* C28 as stated: while paused every mint reverts and changes nothing; when
\* not paused, a mint by a wallet that has not minted, with supply
\* remaining, succeeds.
C28_Pause ==
    [][\A w \in Accounts :
          /\ (MintBy(w) /\ nft.paused) => (receipt'.reason # "ok" /\ nft' = nft)
          /\ (MintBy(w) /\ ~nft.paused /\ ~nft.hasMinted[w]
                 /\ totalSupply(nft) < nft.maxSupply)
                => (receipt'.reason = "ok" /\ nft'.hasMinted[w]
                    /\ totalSupply(nft') = totalSupply(nft) + 1)]_vars

\* C28, amended: while paused every mint reverts and changes nothing; when
\* not paused, a mint by a wallet that passes the ERC721 receiver check and
\* has not minted, with supply remaining, succeeds.
C28_PauseAmended ==
    [][\A w \in Accounts :
          /\ (MintBy(w) /\ nft.paused) => (receipt'.reason # "ok" /\ nft' = nft)
          /\ (MintBy(w) /\ ~nft.paused /\ ~nft.hasMinted[w]
                 /\ totalSupply(nft) < nft.maxSupply /\ checkOnERC721Received(w))
                => (receipt'.reason = "ok" /\ nft'.hasMinted[w]
                    /\ totalSupply(nft') = totalSupply(nft) + 1)]_vars

\* a wallet that could have minted was turned away by the pause
C28_Witness ==
    /\ nft.paused /\ receipt.fn = "mint" /\ receipt.reason = "EnforcedPause"
    /\ ~nft.hasMinted[receipt.sender] /\ totalSupply(nft) < nft.maxSupply
    /\ checkOnERC721Received(receipt.sender)

\* C29: setMaxSupply, setDefaultTokenURI, updateTokenURI, pause and unpause
\* sent by an account that is not the owner revert and leave maxSupply,
\* defaultTokenURI, the token URIs and the paused flag as they were.
C29_AccessControl ==
    [][(/\ receipt'.fn \in {"setMaxSupply", "setDefaultTokenURI", "updateTokenURI",
                            "pause", "unpause"}
        /\ receipt'.sender # nft.owner)
          => /\ receipt'.reason = "OwnableUnauthorizedAccount"
             /\ nft'.maxSupply = nft.maxSupply
             /\ nft'.defaultTokenURI = nft.defaultTokenURI
             /\ nft'.tokenURIs = nft.tokenURIs
             /\ nft'.paused = nft.paused]_vars

\* an account that is not the owner tried to change the URI of a token
C29_Witness ==
    /\ receipt.fn = "updateTokenURI" /\ receipt.sender # nft.owner
    /\ exists(nft, receipt.arg) /\ receipt.reason = "OwnableUnauthorizedAccount"
    /\ nft.tokenURIs[receipt.arg + 1] = nft.defaultTokenURI

\* C30: the k-th successful mint (from 0) creates token k, owned by its
\* caller; totalSupply is the number of successful mints; a mint that fails
\* uses no token id.
C30_TokenNumbering ==
    /\ [](/\ totalSupply(nft) = Len(nft.logs)
           /\ Len(nft.owners) = Len(nft.logs)
           /\ \A k \in 1..Len(nft.logs) : nft.logs[k].tokenId = k - 1)
    /\ [][\A w \in Accounts :
             /\ (MintBy(w) /\ receipt'.reason = "ok")
                   => LET k == Len(nft.logs) IN
                      /\ ~exists(nft, k) /\ exists(nft', k)
                      /\ nft'.owners[k + 1] = w
                      /\ nft'.logs = Append(nft.logs, [minter |-> w, tokenId |-> k])
                      /\ \A j \in 1..k : nft'.owners[j] = nft.owners[j]
             /\ (MintBy(w) /\ receipt'.reason # "ok")
                   => /\ totalSupply(nft') = totalSupply(nft)
                      /\ nft'.owners = nft.owners /\ nft'.logs = nft.logs]_vars

\* the second mint has made token 1, after a mint that failed
C30_Witness ==
    /\ Len(nft.logs) = 2 /\ nft.logs[2].tokenId = 1
    /\ receipt.fn = "mint" /\ receipt.reason = "ok"
    /\ nft.owners[2] = receipt.sender /\ nft.logs[2].minter = receipt.sender

\* the entry stored under a key is too old to be used
Expired(key) ==
    /\ key \in DOMAIN localStorage
    /\ localStorage[key].text = "json"
    /\ ~(now - localStorage[key].obj.timestamp < CACHE_TTL)

\* caller t stores the result of its scan in this step
SetsKey(t, key) ==
    /\ task'[t] # task[t]
    /\ task'[t].via = "scan" /\ task'[t].pc \in {"returned", "all_resume"}
    /\ key = << "activity", task'[t].chainSlug, toLowerCase(task'[t].address),
                task'[t].month >>

\* C31: a stored entry, expired or not, stays as it is in every step except
\* a set of the same key, which overwrites it, and a clear, which removes
\* it; a step that only reads the cache (a hit, a miss that starts a scan or
\* ends without one) leaves the whole storage as it was.
C31_ReadKeepsStorage ==
    [][
        /\ \A key \in DOMAIN localStorage :
              \/ key \in DOMAIN localStorage' /\ localStorage'[key] = localStorage[key]
              \/ \E t \in Tasks :
                    /\ SetsKey(t, key)
                    /\ key \in DOMAIN localStorage'
                    /\ localStorage'[key] =
                          JSON_stringify([hasActivity |-> task'[t].result, timestamp |-> now])
              \/ \E t \in Tasks :
                    /\ task[t].pc = "idle" /\ task'[t].api = "clear"
                    /\ key \notin DOMAIN localStorage'
        /\ \A t \in Tasks :
              (/\ task[t].pc \in {"idle", "all_loop"} /\ task'[t] # task[t]
               /\ task'[t].api \in {"month", "all"}
               /\ ~(task'[t].via = "scan" /\ task'[t].pc \in {"returned", "all_resume"}))
                 => localStorage' = localStorage
    ]_vars

\* a call has found an expired entry, started its scan, and the entry is
\* still stored
C31_Witness ==
    \E t \in Tasks :
        LET f == task[t] IN
        /\ f.api = "month" /\ f.pc \in {"tip", "batch"}
        /\ Expired(getCacheKey(f.address, f.chainSlug, f.month))

\* the entry of the call's key, when it is one a read would use
StoredTrue(f) ==
    LET key == << "activity", f.chainSlug, toLowerCase(f.address), f.month >> IN
    /\ FreshEntry(f.address, f.chainSlug, f.month)
    /\ localStorage[key].obj.hasActivity = TRUE

\* C32: a month check that ends with true was served a fresh cache entry
\* holding true or had one of its own probes answered with a transaction;
\* failed, rate-limited and empty answers, a failed tip resolution and a
\* skipped month never give true.
C32_NoFalsePositive ==
    /\ [](\A t \in Tasks :
             LET f == task[t] IN
             /\ (f.pc \in {"returned", "all_resume"} /\ f.api \in {"month", "all"}
                  /\ f.result = TRUE)
                   => \/ f.via = "cache"
                      \/ f.via = "scan" /\ f.hits # {} /\ f.positive
                            /\ f.hits \subseteq { f.probes[k] : k \in 1..Len(f.probes) }
             /\ (f.hits # {} => f.positive)
             /\ \A m \in Months :
                   f.allResults[m] = TRUE
                      => \E k \in 1..Len(f.completed) : f.completed[k] = << m, TRUE >>)
    /\ [][\A t \in Tasks :
             /\ (task'[t] # task[t] /\ task'[t].pc \in {"returned", "all_resume"}
                  /\ task'[t].via = "cache" /\ task'[t].result = TRUE)
                   => StoredTrue(task'[t])
             /\ (task[t].pc \in {"tip", "batch"} /\ task[t].hits = {}
                  /\ task'[t].pc \in {"returned", "all_resume"})
                   => task'[t].result = FALSE
             /\ (task[t].pc = "all_loop" /\ task'[t].pc = "all_loop"
                  /\ Len(task'[t].completed) > Len(task[t].completed))
                   => task'[t].completed[Len(task'[t].completed)][2] = FALSE]_vars

\* a scan has returned true after one of its probes was answered with a
\* transaction
C32_Witness ==
    \E t \in Tasks :
        LET f == task[t] IN
        /\ f.pc = "returned" /\ f.via = "scan" /\ Len(f.probes) >= 2
        /\ f.result = TRUE /\ f.positive /\ Cardinality(f.hits) = 1

\* the stored result under the key of frame f
EntryOf(f) ==
    localStorage[<< "activity", f.chainSlug, toLowerCase(f.address), f.month >>]

HasEntry(f) ==
    << "activity", f.chainSlug, toLowerCase(f.address), f.month >> \in DOMAIN localStorage

\* both callers have scanned the same key and finished: neither was served
\* from the cache, so each started before the other had stored its result
BothScanned ==
    /\ \A t \in Tasks : task[t].pc = "returned" /\ task[t].via = "scan"
    /\ \A t, u \in Tasks :
          /\ task[t].chainSlug = task[u].chainSlug /\ task[t].month = task[u].month
          /\ toLowerCase(task[t].address) = toLowerCase(task[u].address)

\* C33 as stated: after two overlapping calls for one key have finished, the
\* entry holds true if either of them returned true.
C33_TrueSurvives ==
    BothScanned =>
        ((\E t \in Tasks : task[t].result = TRUE)
            => \A t \in Tasks : HasEntry(task[t]) /\ EntryOf(task[t]).obj.hasActivity = TRUE)

\* C33, amended: every call that finishes its scan overwrites the entry with
\* its own result, whatever the entry held, so after two overlapping calls
\* the entry holds the result of the call that finished last (one of the two
\* results, and true when both returned true).
C33_LastWriterWins ==
    /\ [](BothScanned =>
             \A t \in Tasks :
                /\ HasEntry(task[t])
                /\ \E u \in Tasks : EntryOf(task[t]).obj.hasActivity = task[u].result)
    /\ [][\A t \in Tasks :
             (task'[t] # task[t] /\ task'[t].pc = "returned" /\ task'[t].via = "scan")
                => LET key == << "activity", task'[t].chainSlug,
                                 toLowerCase(task'[t].address), task'[t].month >>
                   IN /\ key \in DOMAIN localStorage'
                      /\ localStorage'[key] =
                            JSON_stringify([hasActivity |-> task'[t].result,
                                            timestamp |-> now])]_vars

\* one call returned true, the other false, and the entry holds false
C33_Witness ==
    /\ BothScanned
    /\ task[1].result = TRUE /\ task[2].result = FALSE
    /\ EntryOf(task[1]).obj.hasActivity = FALSE

\* C34: in every onProgress call of a scan 1 <= checked <= total, checked is
\* greater than in the call before, and checked is the number of distinct
\* chunks probed up to that call, on every chain and in either
\* implementation.
C34_ProgressBounds ==
    \A t \in Tasks :
        LET f == task[t]
            n == Len(f.progress)
        IN /\ \A k \in 1..n :
                 /\ 1 <= f.progress[k][1]
                 /\ f.progress[k][1] <= f.progress[k][2]
                 /\ k > 1 => f.progress[k - 1][1] < f.progress[k][1]
           /\ (n > 0 /\ f.pc \in {"batch", "returned", "all_resume"})
                 => f.progress[n][1] = Cardinality(ProbedChunks(f))

\* C35: clearActivityCache with only an address, or only a chain, removes
\* every 'activity_' key, of every address and chain, and leaves every other
\* key with its value: the storage it leaves is the one the clear without
\* arguments would leave.
C35_OneArgumentClearsAll ==
    [][ \A t \in Tasks :
          LET g == task'[t] IN
          (Clears(task[t], g) /\ ((g.address = "") # (g.chainSlug = "")))
             => /\ \A k \in DOMAIN localStorage :
                      k \in DOMAIN localStorage' <=> ~(Len(k) >= 2 /\ k[1] = "activity")
                /\ DOMAIN localStorage' \subseteq DOMAIN localStorage
                /\ \A k \in DOMAIN localStorage' : localStorage'[k] = localStorage[k]
                /\ g.removed = { k \in DOMAIN localStorage : Len(k) >= 2 /\ k[1] = "activity" }
      ]_vars

\* a clear that named only one chain, or only one address, removed an entry
\* of another chain and another address
C35_Witness ==
    \E t \in Tasks :
        LET f == task[t] IN
        /\ f.api = "clear" /\ f.pc = "returned"
        /\ \/ f.address = "" /\ f.chainSlug = "pharos-atlantic"
           \/ f.address = "0xAb" /\ f.chainSlug = ""
        /\ << "activity", "iopn-testnet", "0xcd", "September" >> \in f.removed
        /\ STORAGE_KEY \in DOMAIN localStorage

ReportedAll(f) ==
    LET configs == getMonthConfigsForChain(f.chainSlug) IN
    /\ Len(f.completed) = Len(configs)
    /\ \A k \in 1..Len(configs) : f.completed[k][1] = configs[k].name

\* a call of checkActivityForMonth ends, by a value or by an exception
C38_MonthCheckEnds ==
    \A t \in Callers :
        (task[t].api = "month") ~> (task[t].pc \in {"returned", "raised"})

\* a call of checkAllMonthsActivity ends, by its record or by an exception
C38_AllMonthsEnds ==
    \A t \in Callers :
        (task[t].api = "all") ~> (task[t].pc \in {"returned", "raised"})

\* between two batches of one scan the batch index grows
C38_BatchIndexGrows ==
    [][\A t \in Callers :
          (task[t].pc = "batch" /\ task'[t].pc = "batch"
           /\ task'[t].batches # task[t].batches)
             => (task'[t].batches = task[t].batches + 1 /\ task'[t].i > task[t].i)]_vars

\* C38: when every issued request is answered or fails, every call of
\* checkActivityForMonth returns or raises, every call of
\* checkAllMonthsActivity returns, having reported each configured month
\* once, and the batch index of a scan strictly increases from batch to batch.
C38_Termination ==
    /\ C38_MonthCheckEnds
    /\ \A t \in Callers :
          (task[t].api = "all") ~> (task[t].pc = "returned" /\ ReportedAll(task[t]))
    /\ C38_BatchIndexGrows

\* C39: deployMonth starts at most maxRetries attempts; it goes on to another
\* attempt only after a failure whose message contains 'mempool' or 'nonce'
\* and only while fewer than maxRetries attempts were made; any other failure
\* and the failure of the last attempt are rethrown at once; the first
\* attempt that succeeds returns the address it deployed and nothing is
\* attempted after it.
C39_DeployRetries ==
    /\ [](/\ deploy.attempts <= maxRetries
          /\ deploy.pc \in {"attempt", "delay", "returned"} =>
                deploy.attempts = deploy.attempt
          /\ deploy.pc = "returned" => deploy.deployed = << deploy.address >>
          /\ deploy.pc # "returned" => deploy.deployed = << >>)
    /\ [][
          LET mayRetry == /\ \/ includes(deploy'.error, "mempool")
                             \/ includes(deploy'.error, "nonce")
                          /\ deploy.attempts < maxRetries
          IN
          /\ deploy.pc = "attempt" =>
                /\ deploy'.pc \in {"delay", "returned", "raised"}
                /\ deploy'.attempts = deploy.attempts
                /\ deploy'.pc = "delay" => mayRetry
                /\ deploy'.pc = "raised" => ~mayRetry
                /\ deploy'.pc = "returned" => deploy'.address \in DeployedAddresses
          /\ deploy.pc = "delay" =>
                (deploy'.pc = "attempt" /\ deploy'.attempts = deploy.attempts + 1)
          /\ deploy.pc \in {"returned", "raised"} => deploy' = deploy
       ]_deploy

\* the last attempt allowed fails with a message that was retried before
C39_Witness ==
    /\ deploy.pc = "raised"
    /\ deploy.attempts = maxRetries
    /\ includes(deploy.error, "nonce")
====
